---- MODULE Spec2Model ----
(***************************************************************************)
(* State-machine model of the file_sync_manager application:               *)
(*   - DirScanner   (src/src/apps/file_sync_manager/dir_scanner.rs)        *)
(*   - LogObserver  (src/src/apps/file_sync_manager/log_observer.rs)       *)
(*   - WrapList     (src/src/my_widgets/wrap_list.rs)                      *)
(* Every `lock().unwrap()` scope of the source is one atomic step of the   *)
(* thread that takes it, but for the scope that reads the file system      *)
(* (update_file_watchinfo), which is two steps.  Calls made by the single  *)
(* UI thread that neither sleep nor block are one action each: between     *)
(* their lock scopes no worker step can change what they decide (workers   *)
(* never set a Running status), so only the relative order of log entries  *)
(* is abstracted.                                                          *)
(***************************************************************************)
EXTENDS Integers, Sequences, FiniteSets, Bags, TLC

VARIABLES
    \* ---- DirScanner / ScSharedState ----
    scanner_status,       \* ScSharedState.scanner_status
    periodic_scan_count,  \* ScSharedState.periodic_scan_count
    sc_logs,              \* ScSharedState.logs (raw_list, most recent first)
    sc_threads,           \* the bag of the threads spawned by start_scanner and
                          \* start_periodic_scan; the field pending is history: the
                          \* thread was in its sleep loop when a stop was accepted
                          \* and has not read the status since
    stop_tasks,           \* number of live tasks spawned by stop_periodic_scan
    sc_last,              \* history: "start:running" right after a start call was
                          \* rejected on a running scanner, "stop:accepted" right
                          \* after a stop was accepted, "once:ok" or "once:err"
                          \* right after a once scan was joined with that result,
                          \* "-" otherwise
    \* ---- LogObserver / SharedState ----
    status,               \* SharedState.status
    launch_time,          \* SharedState.launch_time: "epoch" or "started"
    elapsed_time,         \* SharedState.elapsed_time: "zero", "since_launch", "since_epoch"
    files_watched,        \* FileStatistics.files_watched, in IndexMap order
    files_got,            \* FileStatistics.files_got
    logs,                 \* SharedState.logs (raw_list, most recent first)
    handle,               \* LogObserver.handle: 0 is None, else the thread it joins
    workers,              \* the threads running inner_monitor
    mutex,                \* the Mutex around SharedState: "free", "held", "poisoned"
    ui,                   \* the thread that calls start_monitor / stop_monitor
    max_watch_files,      \* load_config().file_monitor.max_watch_files
    seen_pos,             \* history: the last_read_pos last recorded for each path
    \* ---- the log file that is tailed, and the registry ----
    content,              \* the bytes of the log file, in file order
    handed,               \* history: the records passed to registry::process_paths
    extracted,            \* the items the last collected extract_path_stream yielded
    \* ---- handle_pathstring ----
    prefix_cfg,           \* the configuration file: prefix_map_of_extract_path
    tr_path,              \* the argument of the last handle_pathstring call
    tr_result,            \* the PathBuf that call returned
    \* ---- a WrapList by itself ----
    wl_capacity,          \* the capacity given to WrapList::new, 0 before the call
    wl_raw_list,          \* WrapList.raw_list, front first
    wl_list,              \* WrapList.list, front first: the event of each ListItem
    wl_wrap_len,          \* WrapList.wrap_len: 0 is None
    wl_pushed,            \* history: the number of add_raw_item calls; the n-th
                          \* call pushes the event n
    \* ---- the registry ----
    file_info,            \* the rows of the table testdata.file_info
    rg_infos,             \* history: the argument of the last insert_file_infos call
    \* ---- one process_paths call at a time ----
    pp_file_infos,        \* process_paths: file_infos
    pp_idx,               \* process_paths: idx
    pp_batches,           \* history: the batches handed to insert_file_infos, in order
    pp_pc,                \* "idle", "loop", "ok" (returned Ok), "err" (returned Err)
    \* ---- the cycles of one periodic scan thread over a directory tree ----
    cy_now,               \* the clock that Utc::now and the file system read
    cy_mtime,             \* the modification time of each entry under the root,
                          \* -1 for an entry that is not there
    cy_pc,                \* "none", "top", "walk", "sleep"
    cy_interval,          \* interval, in clock steps
    cy_cutoff,            \* cutoff_time of the cycle
    cy_files,             \* the entries the walk has let through its filter
    cy_slept,             \* slept
    cy_submitted,         \* the files of the last update_file_infos_to_db call
    cy_start,             \* history: the clock when the cycle began
    cy_seen,              \* history: the modification time the walk of this cycle
                          \* read for each entry, -2 for an entry not met yet
    cy_due                \* history: the files modified while a cycle or its sleep
                          \* was under way that no walk has let through since

scvars == <<scanner_status, periodic_scan_count, sc_logs, sc_threads,
            stop_tasks, sc_last>>

obvars == <<status, launch_time, elapsed_time, files_watched, files_got, logs,
            handle, workers, mutex, ui, max_watch_files, seen_pos>>

lnvars == <<content, handed, extracted>>

trvars == <<prefix_cfg, tr_path, tr_result>>

wlvars == <<wl_capacity, wl_raw_list, wl_list, wl_wrap_len, wl_pushed>>

rgvars == <<file_info, rg_infos>>

ppvars == <<pp_file_infos, pp_idx, pp_batches, pp_pc>>

cyvars == <<cy_now, cy_mtime, cy_pc, cy_interval, cy_cutoff, cy_files, cy_slept,
            cy_submitted, cy_start, cy_seen, cy_due>>

xvars == <<wlvars, rgvars, ppvars, cyvars>>

\* all the variables but those of one group
not_wl == <<scvars, obvars, lnvars, trvars, rgvars, ppvars, cyvars>>

not_rg == <<scvars, obvars, lnvars, trvars, wlvars, ppvars, cyvars>>

not_pp == <<scvars, obvars, lnvars, trvars, wlvars, rgvars, cyvars>>

not_cy == <<scvars, obvars, lnvars, trvars, wlvars, rgvars, ppvars>>

vars == <<scvars, obvars, lnvars, trvars, xvars>>

----------------------------------------------------------------------------
(* Bounds *)

\* wrap_len of the WrapList that holds the scanner's events
MaxLog == 1
\* wrap_len of the WrapList that holds the observer's events
MaxObsLog == 1
\* worker threads of the scanner that can be alive at once
MaxScanThreads == 2
\* periodic_scan_count saturates here
MaxCount == 1
\* the scan interval, in 1-second sleep steps
MaxInterval == 1
\* tasks spawned by stop_periodic_scan that can be alive at once
MaxTasks == 1

\* threads running inner_monitor that can be alive at once
MaxThreads == 2
\* largest file length, in bytes
MaxSize == 2
\* largest max_watch_files the configuration may hold
MaxWatched == 2
\* files_got saturates here
MaxGot == 1

\* largest length of the log file, in bytes
MaxBytes == 4
\* largest length of the path text of a log line, in characters
MaxPath == 3

\* largest capacity given to WrapList::new
MaxCapacity == 2
\* largest width of the area a WrapList is rendered on
MaxWidth == 3
\* add_raw_item calls on one WrapList
MaxPushes == 5

\* largest number of records in one insert_file_infos call
MaxBatch == 2

\* the clock stops here
MaxClock == 3

\* largest number of paths given to process_paths
MaxRecords == 201

\* process_paths: batch_size
batch_size == 100

\* the length a WrapList allows before its first render
unwrap_or_500 == 500

ObsSlots == 1..MaxThreads
\* the files under the watched path
Paths == {"X", "Y", "Z"}
\* the files that change while several observer threads are followed
LifePaths == {"X"}

----------------------------------------------------------------------------
(* WrapList *)

\* WrapList::add_raw_item with raw_list and list of equal length:
\* at max_len the oldest entry is popped from the back, the new one is
\* pushed to the front.
add_raw_item(raw_list, max_len, item) ==
    IF Len(raw_list) = max_len
    THEN <<item>> \o SubSeq(raw_list, 1, max_len - 1)
    ELSE <<item>> \o raw_list

\* several log! calls in source order
RECURSIVE add_logs(_, _, _)
add_logs(raw_list, max_len, items) ==
    IF items = <<>> THEN raw_list
    ELSE add_logs(add_raw_item(raw_list, max_len, Head(items)), max_len, Tail(items))

----------------------------------------------------------------------------
(* DirScanner *)

ProgressStatus ==
    {"Running(Once)", "Running(Periodic)", "Stopping", "Stopped", "Finished", "Failed"}

IsRunning(s) == s \in {"Running(Once)", "Running(Periodic)"}

\* the state of a spawned thread; the threads carry no identity (the handle of
\* a periodic thread is dropped, that of a once thread is owned by its
\* completion task), so sc_threads is the bag of these records
NoThread == [kind |-> "none", pc |-> "-", interval |-> 0, slept |-> 0, result |-> "-",
             pending |-> FALSE]

OnceThread(pc, result) == [NoThread EXCEPT !.kind = "once", !.pc = pc, !.result = result]

PeriodicThread(pc, interval) ==
    [NoThread EXCEPT !.kind = "periodic", !.pc = pc, !.interval = interval]

\* thread::spawn
Spawn(r) == sc_threads (+) SetToBag({r})

\* the thread in state r moves to state r2
Replace(r, r2) == (sc_threads (-) SetToBag({r})) (+) SetToBag({r2})

\* the thread in state r ends
Remove(r) == sc_threads (-) SetToBag({r})

\* a periodic thread inside `while slept < interval`
Sleeping(r) == r.kind = "periodic" /\ r.pc = "sleep"

\* history: the sleeping threads are marked when a stop is accepted
MarkRec(r) == IF Sleeping(r) THEN [r EXCEPT !.pending = TRUE] ELSE r

MarkPending(B) ==
    [x \in {MarkRec(r) : r \in BagToSet(B)} |->
        CopiesIn(x, B) + (IF Sleeping(x) THEN CopiesIn([x EXCEPT !.pending = FALSE], B)
                          ELSE 0)]

\* ScSharedState::add_scan_count
add_scan_count(c) == IF c < MaxCount THEN c + 1 ELSE MaxCount

\* DirScanner::new
InitScanner ==
    /\ scanner_status = "Stopped"
    /\ periodic_scan_count = 0
    /\ sc_logs = <<>>
    /\ sc_threads = EmptyBag
    /\ stop_tasks = 0
    /\ sc_last = "-"

\* start_scanner without its Running arm: a start on a running scanner is accepted
start_scanner_no_running_arm(exists) ==
    /\ UNCHANGED <<obvars, lnvars, trvars, xvars>>
    /\ IF ~exists
       THEN /\ sc_logs' = add_raw_item(sc_logs, MaxLog, "Error")
            /\ sc_last' = "-"
            /\ UNCHANGED <<scanner_status, periodic_scan_count, sc_threads, stop_tasks>>
       ELSE IF scanner_status = "Stopping"
       THEN /\ sc_logs' = add_raw_item(sc_logs, MaxLog, "Error")
            /\ sc_last' = "-"
            /\ UNCHANGED <<scanner_status, periodic_scan_count, sc_threads, stop_tasks>>
       ELSE /\ BagCardinality(sc_threads) < MaxScanThreads
            /\ scanner_status' = "Running(Once)"
            /\ sc_threads' = Spawn(OnceThread("walk", "-"))
            /\ sc_logs' = add_raw_item(sc_logs, MaxLog, "Start")
            /\ sc_last' = "-"
            /\ UNCHANGED <<periodic_scan_count, stop_tasks>>

\* DirScanner::start_scanner; exists is the result of path.exists()
start_scanner(exists) ==
    /\ UNCHANGED <<obvars, lnvars, trvars, xvars>>
    /\ IF ~exists
       THEN /\ sc_logs' = add_raw_item(sc_logs, MaxLog, "Error")
            /\ sc_last' = "-"
            /\ UNCHANGED <<scanner_status, periodic_scan_count, sc_threads, stop_tasks>>
       ELSE IF IsRunning(scanner_status)
       THEN /\ sc_logs' = add_raw_item(sc_logs, MaxLog, "Error")
            /\ sc_last' = "start:running"
            /\ UNCHANGED <<scanner_status, periodic_scan_count, sc_threads, stop_tasks>>
       ELSE IF scanner_status = "Stopping"
       THEN /\ sc_logs' = add_raw_item(sc_logs, MaxLog, "Error")
            /\ sc_last' = "-"
            /\ UNCHANGED <<scanner_status, periodic_scan_count, sc_threads, stop_tasks>>
       ELSE /\ BagCardinality(sc_threads) < MaxScanThreads
            /\ scanner_status' = "Running(Once)"
            /\ sc_threads' = Spawn(OnceThread("walk", "-"))
            /\ sc_logs' = add_raw_item(sc_logs, MaxLog, "Start")
            /\ sc_last' = "-"
            /\ UNCHANGED <<periodic_scan_count, stop_tasks>>

\* DirScanner::start_periodic_scan; exists is the result of fs::metadata(path),
\* interval is the Duration in seconds
start_periodic_scan(exists, interval) ==
    /\ UNCHANGED <<obvars, lnvars, trvars, xvars>>
    /\ IF ~exists
       THEN /\ sc_logs' = add_raw_item(sc_logs, MaxLog, "Error")
            /\ sc_last' = "-"
            /\ UNCHANGED <<scanner_status, periodic_scan_count, sc_threads, stop_tasks>>
       ELSE IF IsRunning(scanner_status)
       THEN /\ sc_logs' = add_raw_item(sc_logs, MaxLog, "Error")
            /\ sc_last' = "start:running"
            /\ UNCHANGED <<scanner_status, periodic_scan_count, sc_threads, stop_tasks>>
       ELSE /\ BagCardinality(sc_threads) < MaxScanThreads
            /\ scanner_status' = "Running(Periodic)"
            /\ sc_threads' = Spawn(PeriodicThread("top", interval))
            /\ sc_last' = "-"
            /\ UNCHANGED <<periodic_scan_count, sc_logs, stop_tasks>>

\* stop_periodic_scan that writes the terminal status itself
stop_periodic_scan_sets_stopped ==
    /\ UNCHANGED <<obvars, lnvars, trvars, xvars>>
    /\ IF scanner_status = "Stopped" \/ scanner_status = "Stopping"
       THEN /\ sc_logs' = add_raw_item(sc_logs, MaxLog, "Error")
            /\ sc_last' = "-"
            /\ UNCHANGED <<scanner_status, periodic_scan_count, sc_threads, stop_tasks>>
       ELSE /\ stop_tasks < MaxTasks
            /\ scanner_status' = "Stopped"
            /\ stop_tasks' = stop_tasks + 1
            /\ sc_threads' = MarkPending(sc_threads)
            /\ sc_last' = "stop:accepted"
            /\ UNCHANGED <<periodic_scan_count, sc_logs>>

\* DirScanner::stop_periodic_scan
stop_periodic_scan ==
    /\ UNCHANGED <<obvars, lnvars, trvars, xvars>>
    /\ IF scanner_status = "Stopped" \/ scanner_status = "Stopping"
       THEN /\ sc_logs' = add_raw_item(sc_logs, MaxLog, "Error")
            /\ sc_last' = "-"
            /\ UNCHANGED <<scanner_status, periodic_scan_count, sc_threads, stop_tasks>>
       ELSE /\ stop_tasks < MaxTasks
            /\ scanner_status' = "Stopping"
            /\ stop_tasks' = stop_tasks + 1
            /\ sc_threads' = MarkPending(sc_threads)
            /\ sc_last' = "stop:accepted"
            /\ UNCHANGED <<periodic_scan_count, sc_logs>>

\* the task spawned by stop_periodic_scan: logs Stop once it reads Stopped
stop_task_step ==
    /\ UNCHANGED <<obvars, lnvars, trvars, xvars>>
    /\ stop_tasks > 0
    /\ scanner_status = "Stopped"
    /\ sc_logs' = add_raw_item(sc_logs, MaxLog, "Stop")
    /\ stop_tasks' = stop_tasks - 1
    /\ sc_last' = "-"
    /\ UNCHANGED <<scanner_status, periodic_scan_count, sc_threads>>

\* collect_and_update_fileinfo, first half: the walk and the Info event
collect_walk(r) ==
    /\ UNCHANGED <<obvars, lnvars, trvars, xvars>>
    /\ BagIn(r, sc_threads)
    /\ r.pc = IF r.kind = "once" THEN "walk" ELSE "scan"
    /\ sc_logs' = add_raw_item(sc_logs, MaxLog, "Info")
    /\ sc_threads' = Replace(r, [r EXCEPT !.pc = "db"])
    /\ sc_last' = "-"
    /\ UNCHANGED <<scanner_status, periodic_scan_count, stop_tasks>>

\* pc of a periodic thread entering `while slept < interval` with slept = s
SleepOrTop(s, interval) == IF s < interval THEN "sleep" ELSE "top"

\* collect_and_update_fileinfo, second half: update_file_infos_to_db returns
\* Ok (ok) or Err; the once thread then finishes with that result, the
\* periodic thread drops it, logs Complete and enters its sleep loop
collect_db(r, ok) ==
    /\ UNCHANGED <<obvars, lnvars, trvars, xvars>>
    /\ BagIn(r, sc_threads)
    /\ r.pc = "db"
    /\ IF r.kind = "once"
       THEN /\ sc_logs' = IF ok THEN add_raw_item(sc_logs, MaxLog, "DBInfo") ELSE sc_logs
            /\ sc_threads' = Replace(r, OnceThread("finished", IF ok THEN "Ok" ELSE "Err"))
       ELSE /\ sc_logs' = add_logs(sc_logs, MaxLog, IF ok THEN <<"DBInfo", "Complete">>
                                                  ELSE <<"Complete">>)
            /\ sc_threads' = Replace(r, PeriodicThread(SleepOrTop(0, r.interval), r.interval))
    /\ sc_last' = "-"
    /\ UNCHANGED <<scanner_status, periodic_scan_count, stop_tasks>>

\* the completion watcher spawned by start_scanner, handle not finished:
\* logs the handle status and sleeps 100 ms
watcher_poll(r) ==
    /\ UNCHANGED <<obvars, lnvars, trvars, xvars>>
    /\ BagIn(r, sc_threads)
    /\ r.kind = "once"
    /\ r.pc # "finished"
    /\ sc_logs' = add_raw_item(sc_logs, MaxLog, "Info")
    /\ sc_last' = "-"
    /\ UNCHANGED <<scanner_status, periodic_scan_count, sc_threads, stop_tasks>>

\* a completion watcher that joins the thread and leaves the status as it is
watcher_finish_keeps_status(r) ==
    /\ UNCHANGED <<obvars, lnvars, trvars, xvars>>
    /\ BagIn(r, sc_threads)
    /\ r.kind = "once"
    /\ r.pc = "finished"
    /\ sc_logs' = add_logs(sc_logs, MaxLog, <<"Info", "Info", "Complete">>)
    /\ sc_threads' = Remove(r)
    /\ sc_last' = IF r.result = "Ok" THEN "once:ok" ELSE "once:err"
    /\ UNCHANGED <<scanner_status, periodic_scan_count, stop_tasks>>

\* the completion watcher, handle finished: sets Finished whatever the status
\* is, joins the thread and logs Complete
watcher_finish(r) ==
    /\ UNCHANGED <<obvars, lnvars, trvars, xvars>>
    /\ BagIn(r, sc_threads)
    /\ r.kind = "once"
    /\ r.pc = "finished"
    /\ scanner_status' = "Finished"
    /\ sc_logs' = add_logs(sc_logs, MaxLog, <<"Info", "Info", "Complete">>)
    /\ sc_threads' = Remove(r)
    /\ sc_last' = IF r.result = "Ok" THEN "once:ok" ELSE "once:err"
    /\ UNCHANGED <<periodic_scan_count, stop_tasks>>

\* top of the periodic loop: reads the status; Running(Periodic) starts a
\* cycle, anything else goes to the exit branch
periodic_top(r) ==
    /\ UNCHANGED <<obvars, lnvars, trvars, xvars>>
    /\ BagIn(r, sc_threads)
    /\ r.kind = "periodic"
    /\ r.pc = "top"
    /\ IF scanner_status = "Running(Periodic)"
       THEN /\ periodic_scan_count' = add_scan_count(periodic_scan_count)
            /\ sc_logs' = add_raw_item(sc_logs, MaxLog, "Start")
            /\ sc_threads' = Replace(r, [r EXCEPT !.pc = "scan"])
       ELSE /\ sc_threads' = Replace(r, PeriodicThread("exit", 0))
            /\ UNCHANGED <<periodic_scan_count, sc_logs>>
    /\ sc_last' = "-"
    /\ UNCHANGED <<scanner_status, stop_tasks>>

\* one pass of `while slept < interval`: sleep one step, then read the status;
\* interval and slept are dropped where the code reads them no more
periodic_sleep(r) ==
    /\ UNCHANGED <<obvars, lnvars, trvars, xvars>>
    /\ BagIn(r, sc_threads)
    /\ Sleeping(r)
    /\ sc_threads' = Replace(r, IF scanner_status # "Running(Periodic)"
                                THEN PeriodicThread("exit", 0)
                                ELSE IF r.slept + 1 < r.interval
                                THEN [r EXCEPT !.slept = r.slept + 1, !.pending = FALSE]
                                ELSE PeriodicThread("top", r.interval))
    /\ sc_last' = "-"
    /\ UNCHANGED <<scanner_status, periodic_scan_count, sc_logs, stop_tasks>>

\* the exit of the periodic loop: set_status(Stopped), Stop event, thread ends
periodic_exit(r) ==
    /\ UNCHANGED <<obvars, lnvars, trvars, xvars>>
    /\ BagIn(r, sc_threads)
    /\ r.kind = "periodic"
    /\ r.pc = "exit"
    /\ scanner_status' = "Stopped"
    /\ sc_logs' = add_raw_item(sc_logs, MaxLog, "Stop")
    /\ sc_threads' = Remove(r)
    /\ sc_last' = "-"
    /\ UNCHANGED <<periodic_scan_count, stop_tasks>>

\* the steps of the thread in state r and of its completion task
ScanWorkerStep(r) ==
    \/ collect_walk(r)
    \/ \E ok \in BOOLEAN : collect_db(r, ok)
    \/ watcher_poll(r)
    \/ watcher_finish(r)
    \/ periodic_top(r)
    \/ periodic_sleep(r)
    \/ periodic_exit(r)

\* every state a spawned thread can be in
ThreadStates ==
    {OnceThread("walk", "-"), OnceThread("db", "-"),
     OnceThread("finished", "Ok"), OnceThread("finished", "Err"),
     PeriodicThread("exit", 0)}
    \cup {PeriodicThread(pc, i) : pc \in {"top", "scan", "db"}, i \in 0..MaxInterval}
    \cup {[PeriodicThread("sleep", i) EXCEPT !.slept = s, !.pending = b] :
              i \in 1..MaxInterval, s \in 0..(MaxInterval - 1), b \in BOOLEAN}

\* the threads that exist
Threads == BagToSet(sc_threads)

NextScan ==
    \/ \E exists \in BOOLEAN : start_scanner(exists)
    \/ \E exists \in BOOLEAN, i \in 0..MaxInterval : start_periodic_scan(exists, i)
    \/ stop_periodic_scan
    \/ stop_task_step
    \/ \E r \in ThreadStates : collect_walk(r)
    \/ \E r \in ThreadStates, ok \in BOOLEAN : collect_db(r, ok)
    \/ \E r \in ThreadStates : watcher_poll(r)
    \/ \E r \in ThreadStates : watcher_finish(r)
    \/ \E r \in ThreadStates : periodic_top(r)
    \/ \E r \in ThreadStates : periodic_sleep(r)
    \/ \E r \in ThreadStates : periodic_exit(r)

----------------------------------------------------------------------------
(* SharedState: the watch cache *)

Min(a, b) == IF a < b THEN a ELSE b

Keys(fw) == {fw[i].path : i \in 1..Len(fw)}

IndexOf(fw, p) == CHOOSE i \in 1..Len(fw) : fw[i].path = p

\* IndexMap::get on a present key
get(fw, p) == fw[IndexOf(fw, p)]

\* an insert that moves a present key to the end, as a map kept in access
\* order does
insert_moved(fw, info) ==
    SelectSeq(fw, LAMBDA e : e.path # info.path) \o <<info>>

\* IndexMap::insert: a present key keeps its position, a new key goes last
insert(fw, info) ==
    IF info.path \in Keys(fw)
    THEN [fw EXCEPT ![IndexOf(fw, info.path)] = info]
    ELSE Append(fw, info)

\* removes the most recently inserted entry instead of the earliest
pop_last(fw) == IF fw = <<>> THEN fw ELSE SubSeq(fw, 1, Len(fw) - 1)

\* IndexMap::shift_remove_index(0): no effect on an empty map
shift_remove_index0(fw) == IF fw = <<>> THEN fw ELSE Tail(fw)

\* SharedState::update_file_watchinfo; size is the length std::fs::metadata
\* returns; the value is the map after the call
update_file_watchinfo(fw, p, size, max_files_watched) ==
    LET info == [path |-> p,
                 last_read_pos |-> IF p \in Keys(fw) THEN get(fw, p).last_read_pos ELSE 0,
                 file_size |-> size]
        fw1 == IF p \notin Keys(fw) /\ Len(fw) >= max_files_watched
               THEN shift_remove_index0(fw)
               ELSE fw
    IN insert(fw1, info)

\* SharedState::set_file_watchinfo; the value is the map after the call
set_file_watchinfo(fw, info) == insert(fw, info)

\* the Option that IndexMap::insert returns: <<>> is None, <<v>> is Some(v)
insert_old(fw, info) ==
    IF info.path \in Keys(fw) THEN <<get(fw, info.path)>> ELSE <<>>

\* the Option that update_file_watchinfo returns: that of its insert, which
\* runs on the map as the capacity check has left it
update_file_watchinfo_old(fw, p, size, max_files_watched) ==
    LET info == [path |-> p,
                 last_read_pos |-> IF p \in Keys(fw) THEN get(fw, p).last_read_pos ELSE 0,
                 file_size |-> size]
        fw1 == IF p \notin Keys(fw) /\ Len(fw) >= max_files_watched
               THEN shift_remove_index0(fw)
               ELSE fw
    IN insert_old(fw1, info)

\* the Option that set_file_watchinfo returns
set_file_watchinfo_old(fw, info) == insert_old(fw, info)

\* SharedState::add_file_got
add_file_got(got, num) == Min(got + num, MaxGot)

\* history of the recorded offsets, given the map after a step
Seen(fw) == [p \in Paths |-> IF p \in Keys(fw) THEN get(fw, p).last_read_pos
                             ELSE seen_pos[p]]

----------------------------------------------------------------------------
(* LogObserver *)

NoWorker == [pc |-> "none", stop_done |-> FALSE, path |-> "-",
             last_read_pos |-> 0, file_size |-> 0, n |-> 0]

\* a thread whose closure has returned or panicked (JoinHandle::is_finished)
IsFinished(w) == workers[w].pc \in {"finished", "panicked"}

\* a spawned thread that is still running inner_monitor
Alive(w) == workers[w].pc \notin {"none", "finished", "panicked"}

FreeObsSlots == {w \in ObsSlots : workers[w].pc = "none"}

NewObsSlot == CHOOSE w \in FreeObsSlots : \A u \in FreeObsSlots : w <= u

\* the record of thread w once it has ended in state pc: it is kept only
\* while self.handle can still join it
Ended(w, pc) == IF handle = w THEN [NoWorker EXCEPT !.pc = pc] ELSE NoWorker

\* the thread goes back to rx.recv_timeout: the locals of the match arm are dropped
BackToRecv(w) == [NoWorker EXCEPT !.pc = "recv", !.stop_done = workers[w].stop_done]

\* LogObserver::new
InitObserver ==
    /\ status = "Stopped"
    /\ launch_time = "epoch"
    /\ elapsed_time = "zero"
    /\ files_watched = <<>>
    /\ files_got = 0
    /\ logs = <<>>
    /\ handle = 0
    /\ workers = [w \in ObsSlots |-> NoWorker]
    /\ mutex = "free"
    /\ ui = "idle"
    /\ max_watch_files = -1
    /\ seen_pos = [p \in Paths |-> 0]

\* the log file is empty and nothing has been sent to the registry
InitLog ==
    /\ content = <<>>
    /\ handed = {}
    /\ extracted = <<>>

\* the configuration file is not written yet, handle_pathstring not called
InitTranslate ==
    /\ prefix_cfg = [loaded |-> FALSE, prefix_map |-> <<>>]
    /\ tr_path = <<"-">>
    /\ tr_result = <<>>

\* no WrapList is constructed yet
InitWrap ==
    /\ wl_capacity = 0
    /\ wl_raw_list = <<>>
    /\ wl_list = <<>>
    /\ wl_wrap_len = 0
    /\ wl_pushed = 0

\* the table is empty
InitRegistry ==
    /\ file_info = {}
    /\ rg_infos = <<>>

\* process_paths is not called yet
InitBatch ==
    /\ pp_file_infos = <<>>
    /\ pp_idx = 0
    /\ pp_batches = <<>>
    /\ pp_pc = "idle"

\* the entries under the root: two regular files and a directory
CyFiles == {"f", "g"}

CyEntries == CyFiles \cup {"d"}

\* the tree as it is when the periodic scan is started: every entry is
\* there, last modified at time 0
InitCycle ==
    /\ cy_now = 0
    /\ cy_mtime = [e \in CyEntries |-> 0]
    /\ cy_pc = "none"
    /\ cy_interval = 0
    /\ cy_cutoff = 0
    /\ cy_files = {}
    /\ cy_slept = 0
    /\ cy_submitted = {}
    /\ cy_start = 0
    /\ cy_seen = [e \in CyEntries |-> -2]
    /\ cy_due = {}

Init ==
    /\ InitScanner /\ InitObserver /\ InitLog /\ InitTranslate /\ InitWrap
    /\ InitRegistry /\ InitBatch /\ InitCycle

\* LogObserver::start_monitor; exists is the result of Path::exists.
\* On a Running observer the guard `ss` is still held when log! locks the
\* same mutex again: std::sync::Mutex::lock then never returns, it blocks
\* forever or panics (which poisons the mutex as `ss` is dropped).  On a
\* poisoned mutex the first lock().unwrap() of the call panics, that of log!
\* when the path does not exist.
start_monitor(exists) ==
    /\ UNCHANGED <<scvars, lnvars, trvars, xvars>>
    /\ ui = "idle"
    /\ mutex # "held"
    /\ IF mutex = "poisoned"
       THEN /\ ui' = "panicked"
            /\ UNCHANGED <<status, launch_time, elapsed_time, files_watched, files_got,
                           logs, handle, workers, mutex, max_watch_files, seen_pos>>
       ELSE IF ~exists
       THEN /\ logs' = add_raw_item(logs, MaxObsLog, "Error")
            /\ UNCHANGED <<status, launch_time, elapsed_time, files_watched, files_got,
                           handle, workers, mutex, ui, max_watch_files,
                           seen_pos>>
       ELSE IF status = "Running"
       THEN /\ \/ ui' = "deadlocked" /\ mutex' = "held"
               \/ ui' = "panicked" /\ mutex' = "poisoned"
            /\ UNCHANGED <<status, launch_time, elapsed_time, files_watched, files_got,
                           logs, handle, workers, max_watch_files, seen_pos>>
       ELSE /\ FreeObsSlots # {}
            /\ launch_time' = "started"
            /\ status' = "Running"
            /\ workers' = [w \in ObsSlots |->
                              IF w = NewObsSlot THEN [NoWorker EXCEPT !.pc = "start"]
                              ELSE IF w = handle /\ IsFinished(w) THEN NoWorker
                              ELSE workers[w]]
            /\ handle' = NewObsSlot
            /\ logs' = add_raw_item(logs, MaxObsLog, "Info")
            /\ UNCHANGED <<elapsed_time, files_watched, files_got, mutex, ui, max_watch_files, seen_pos>>

\* LogObserver::stop_monitor up to thread::sleep(800 ms)
stop_monitor ==
    /\ UNCHANGED <<scvars, lnvars, trvars, xvars>>
    /\ ui = "idle"
    /\ mutex = "free"
    /\ IF status = "Stopped"
       THEN UNCHANGED <<status, ui>>
       ELSE /\ status' = "Stopped"
            /\ ui' = "stop_sleep"
    /\ UNCHANGED <<launch_time, elapsed_time, files_watched, files_got, logs, handle,
                   workers, mutex, max_watch_files, seen_pos>>

\* LogObserver::stop_monitor after the sleep: handle.take(), is_finished()
stop_monitor_wake ==
    /\ UNCHANGED <<scvars, lnvars, trvars, xvars>>
    /\ ui = "stop_sleep"
    /\ mutex = "free"
    /\ ui' = "idle"
    /\ handle' = 0
    /\ IF handle = 0
       THEN UNCHANGED <<launch_time, elapsed_time, logs, workers>>
       ELSE IF IsFinished(handle)
       THEN /\ launch_time' = "epoch"
            /\ elapsed_time' = "zero"
            /\ logs' = add_raw_item(logs, MaxObsLog, "StopMonitor")
            /\ workers' = [workers EXCEPT ![handle] = NoWorker]
       ELSE /\ logs' = add_raw_item(logs, MaxObsLog, "Error")
            /\ UNCHANGED <<launch_time, elapsed_time, workers>>
    /\ UNCHANGED <<status, files_watched, files_got, mutex, max_watch_files,
                   seen_pos>>

\* a call of the UI thread that locks the poisoned mutex: lock().unwrap() panics
ui_poisoned ==
    /\ UNCHANGED <<scvars, lnvars, trvars, xvars>>
    /\ ui \in {"idle", "stop_sleep"}
    /\ mutex = "poisoned"
    /\ ui' = "panicked"
    /\ UNCHANGED <<status, launch_time, elapsed_time, files_watched, files_got, logs,
                   handle, workers, mutex, max_watch_files, seen_pos>>

\* one pass of should_stop_future: recompute elapsed_time, read the status
PollStop(w) ==
    /\ elapsed_time' = IF launch_time = "epoch" THEN "since_epoch" ELSE "since_launch"
    /\ workers' = [workers EXCEPT
                      ![w].stop_done = (status = "Stopped"),
                      ![w].pc = IF @ = "start" THEN "recv" ELSE @]

\* first poll of futures::join!: should_stop_future runs one pass, then
\* iterate_future loads the configuration (m is the value in the file) and
\* enters rx.recv_timeout
first_poll(w, m) ==
    /\ UNCHANGED <<scvars, lnvars, trvars, xvars>>
    /\ workers[w].pc = "start"
    /\ mutex = "free"
    /\ PollStop(w)
    /\ max_watch_files' = IF max_watch_files = -1 THEN m ELSE max_watch_files
    /\ UNCHANGED <<status, launch_time, files_watched, files_got, logs, handle, mutex,
                   ui, seen_pos>>

\* later polls of should_stop_future: join! polls it again only when
\* iterate_future has returned Pending at one of its awaits, or has completed
poll_stop(w) ==
    /\ UNCHANGED <<scvars, lnvars, trvars, xvars>>
    /\ workers[w].pc \in {"collect", "sync", "iter_done"}
    /\ ~workers[w].stop_done
    /\ mutex = "free"
    /\ PollStop(w)
    /\ UNCHANGED <<status, launch_time, files_watched, files_got, logs, handle, mutex,
                   ui, max_watch_files, seen_pos>>

\* rx.recv_timeout returns a Modify event for paths[0] = p; the event is logged
recv_modify(w, p) ==
    /\ UNCHANGED <<scvars, lnvars, trvars, xvars>>
    /\ workers[w].pc = "recv"
    /\ mutex = "free"
    /\ logs' = add_raw_item(logs, MaxObsLog, "ModifiedFile")
    /\ workers' = [workers EXCEPT ![w].pc = "update", ![w].path = p]
    /\ UNCHANGED <<status, launch_time, elapsed_time, files_watched, files_got, handle,
                   mutex, ui, max_watch_files, seen_pos>>

\* rx.recv_timeout returns an error that is not Timeout (the channel is
\* disconnected): the Error event is logged and the loop is left by `break`;
\* iterate_future is complete, join! goes on polling should_stop_future
recv_error(w) ==
    /\ UNCHANGED <<scvars, lnvars, trvars, xvars>>
    /\ workers[w].pc = "recv"
    /\ mutex = "free"
    /\ logs' = add_raw_item(logs, MaxObsLog, "Error")
    /\ workers' = [workers EXCEPT ![w].pc = "iter_done"]
    /\ UNCHANGED <<status, launch_time, elapsed_time, files_watched, files_got, handle,
                   mutex, ui, max_watch_files, seen_pos>>

\* inner_monitor: `ss_clone2.lock().unwrap()` of the update_file_watchinfo
\* call: the guard lives until the call has returned, and the call starts
\* with std::fs::metadata(path)
iterate_lock(w) ==
    /\ UNCHANGED <<scvars, lnvars, trvars, xvars>>
    /\ workers[w].pc = "update"
    /\ mutex = "free"
    /\ mutex' = "held"
    /\ workers' = [workers EXCEPT ![w].pc = "metadata"]
    /\ UNCHANGED <<status, launch_time, elapsed_time, files_watched, files_got, logs,
                   handle, ui, max_watch_files, seen_pos>>

\* inner_monitor: the update_file_watchinfo call; size is the length that
\* std::fs::metadata(path) returns at that moment; the guard is dropped
iterate_update(w, size) ==
    /\ UNCHANGED <<scvars, lnvars, trvars, xvars>>
    /\ workers[w].pc = "metadata"
    /\ mutex = "held"
    /\ mutex' = "free"
    /\ LET p == workers[w].path
           fw == update_file_watchinfo(files_watched, p, size, max_watch_files)
       IN /\ files_watched' = fw
          /\ seen_pos' = Seen(fw)
    /\ workers' = [workers EXCEPT ![w].pc = "getsize"]
    /\ UNCHANGED <<status, launch_time, elapsed_time, files_got, logs, handle,
                   ui, max_watch_files>>

\* inner_monitor: the update_file_watchinfo call when std::fs::metadata(path)
\* fails (the file is gone): its unwrap panics under the lock
iterate_update_panic(w) ==
    /\ UNCHANGED <<scvars, lnvars, trvars, xvars>>
    /\ workers[w].pc = "metadata"
    /\ mutex = "held"
    /\ mutex' = "poisoned"
    /\ workers' = [workers EXCEPT ![w] = Ended(w, "panicked")]
    /\ UNCHANGED <<status, launch_time, elapsed_time, files_watched, files_got, logs,
                   handle, ui, max_watch_files, seen_pos>>

\* inner_monitor: current_file_size = files_watched.get(&path).unwrap().file_size
\* and the Info event; the unwrap panics under the lock when the key is gone
iterate_getsize(w) ==
    /\ UNCHANGED <<scvars, lnvars, trvars, xvars>>
    /\ workers[w].pc = "getsize"
    /\ mutex = "free"
    /\ IF workers[w].path \in Keys(files_watched)
       THEN /\ logs' = add_raw_item(logs, MaxObsLog, "Info")
            /\ workers' = [workers EXCEPT ![w].pc = "snapshot"]
            /\ UNCHANGED mutex
       ELSE /\ mutex' = "poisoned"
            /\ workers' = [workers EXCEPT ![w] = Ended(w, "panicked")]
            /\ UNCHANGED logs
    /\ UNCHANGED <<status, launch_time, elapsed_time, files_watched, files_got, handle,
                   ui, max_watch_files, seen_pos>>

\* inner_monitor: (last_read_pos, file_size) of the path, (0, 0) when absent
iterate_snapshot(w) ==
    /\ UNCHANGED <<scvars, lnvars, trvars, xvars>>
    /\ workers[w].pc = "snapshot"
    /\ mutex = "free"
    /\ LET p == workers[w].path
           present == p \in Keys(files_watched)
       IN workers' = [workers EXCEPT
              ![w].pc = "check",
              ![w].last_read_pos = IF present THEN get(files_watched, p).last_read_pos ELSE 0,
              ![w].file_size = IF present THEN get(files_watched, p).file_size ELSE 0]
    /\ UNCHANGED <<status, launch_time, elapsed_time, files_watched, files_got, logs,
                   handle, mutex, ui, max_watch_files, seen_pos>>

\* the size test alone, without the test of the status before it
iterate_check_no_stop(w) ==
    /\ UNCHANGED <<scvars, lnvars, trvars, xvars>>
    /\ workers[w].pc = "check"
    /\ mutex = "free"
    /\ IF workers[w].file_size > workers[w].last_read_pos
       THEN /\ workers' = [workers EXCEPT ![w].pc = "collect"]
       ELSE /\ workers' = [workers EXCEPT ![w] = BackToRecv(w)]
    /\ UNCHANGED <<status, launch_time, elapsed_time, files_watched, files_got, logs,
                   handle, mutex, ui, max_watch_files, seen_pos>>

\* inner_monitor: `if status == Stopped { break 'outer }`, then
\* `if file_size > last_read_pos`
iterate_check(w) ==
    /\ UNCHANGED <<scvars, lnvars, trvars, xvars>>
    /\ workers[w].pc = "check"
    /\ mutex = "free"
    /\ IF status = "Stopped"
       THEN /\ workers' = [workers EXCEPT ![w] =
                              [NoWorker EXCEPT !.pc = "iter_done",
                                               !.stop_done = workers[w].stop_done]]
       ELSE IF workers[w].file_size > workers[w].last_read_pos
       THEN /\ workers' = [workers EXCEPT ![w].pc = "collect"]
       ELSE /\ workers' = [workers EXCEPT ![w] = BackToRecv(w)]
    /\ UNCHANGED <<status, launch_time, elapsed_time, files_watched, files_got, logs,
                   handle, mutex, ui, max_watch_files, seen_pos>>

\* inner_monitor: extract_path_stream from last_read_pos and collect();
\* n is the number of records found between the offset and the end of the
\* file as it is at that moment (at most one record per byte)
iterate_collect(w, n) ==
    /\ UNCHANGED <<scvars, lnvars, trvars, xvars>>
    /\ workers[w].pc = "collect"
    /\ mutex = "free"
    /\ n <= MaxSize - workers[w].last_read_pos
    /\ workers' = [workers EXCEPT ![w].pc = "sync", ![w].n = n]
    /\ UNCHANGED <<status, launch_time, elapsed_time, files_watched, files_got, logs,
                   handle, mutex, ui, max_watch_files, seen_pos>>

\* inner_monitor: registry::process_paths(paths).await.unwrap()
iterate_sync(w, ok) ==
    /\ UNCHANGED <<scvars, lnvars, trvars, xvars>>
    /\ workers[w].pc = "sync"
    /\ IF ok
       THEN /\ workers' = [workers EXCEPT ![w].pc = "commit"]
       ELSE /\ workers' = [workers EXCEPT ![w] = Ended(w, "panicked")]
    /\ UNCHANGED <<status, launch_time, elapsed_time, files_watched, files_got, logs,
                   handle, mutex, ui, max_watch_files, seen_pos>>

\* inner_monitor: set_file_watchinfo with last_read_pos = file_size, then
\* bytes_read = offset - last_offset, the ModifiedFile event and add_file_got.
\* When last_offset > offset the u64 subtraction panics in a build with
\* overflow checks (checked) and wraps in one without.
iterate_commit(w, checked) ==
    /\ UNCHANGED <<scvars, lnvars, trvars, xvars>>
    /\ workers[w].pc = "commit"
    /\ mutex = "free"
    /\ LET p == workers[w].path
           offset == workers[w].file_size
           last_offset == IF p \in Keys(files_watched)
                          THEN get(files_watched, p).last_read_pos ELSE 0
           fw == set_file_watchinfo(files_watched,
                     [path |-> p, last_read_pos |-> offset, file_size |-> offset])
       IN /\ files_watched' = fw
          /\ seen_pos' = Seen(fw)
          /\ IF last_offset > offset /\ checked
             THEN /\ workers' = [workers EXCEPT ![w] = Ended(w, "panicked")]
                  /\ UNCHANGED <<logs, files_got>>
             ELSE /\ logs' = add_raw_item(logs, MaxObsLog, "ModifiedFile")
                  /\ files_got' = add_file_got(files_got, workers[w].n)
                  /\ workers' = [workers EXCEPT ![w] = BackToRecv(w)]
    /\ UNCHANGED <<status, launch_time, elapsed_time, handle, mutex, ui, max_watch_files>>

\* inner_monitor after futures::join! has returned: the Info event, Ok(())
monitor_return(w) ==
    /\ UNCHANGED <<scvars, lnvars, trvars, xvars>>
    /\ workers[w].pc = "iter_done"
    /\ workers[w].stop_done
    /\ mutex = "free"
    /\ logs' = add_raw_item(logs, MaxObsLog, "Info")
    /\ workers' = [workers EXCEPT ![w] = Ended(w, "finished")]
    /\ UNCHANGED <<status, launch_time, elapsed_time, files_watched, files_got, handle,
                   mutex, ui, max_watch_files, seen_pos>>

\* a worker locks the poisoned mutex: lock().unwrap() panics
worker_poisoned(w) ==
    /\ UNCHANGED <<scvars, lnvars, trvars, xvars>>
    /\ Alive(w)
    /\ workers[w].pc \notin {"sync", "metadata"}
    /\ mutex = "poisoned"
    /\ workers' = [workers EXCEPT ![w] = Ended(w, "panicked")]
    /\ UNCHANGED <<status, launch_time, elapsed_time, files_watched, files_got, logs,
                   handle, mutex, ui, max_watch_files, seen_pos>>

\* the steps a spawned thread takes by itself (no event delivery)
ObsWorkerStep(w) ==
    \/ \E m \in 0..MaxWatched : first_poll(w, m)
    \/ poll_stop(w)
    \/ iterate_lock(w)
    \/ \E size \in 0..MaxSize : iterate_update(w, size)
    \/ iterate_update_panic(w)
    \/ iterate_getsize(w)
    \/ iterate_snapshot(w)
    \/ iterate_check(w)
    \/ \E n \in 0..MaxGot : iterate_collect(w, n)
    \/ \E ok \in BOOLEAN : iterate_sync(w, ok)
    \/ \E c \in BOOLEAN : iterate_commit(w, c)
    \/ monitor_return(w)
    \/ worker_poisoned(w)

NextObs ==
    \/ \E exists \in BOOLEAN : start_monitor(exists)
    \/ stop_monitor
    \/ stop_monitor_wake
    \/ ui_poisoned
    \/ \E w \in ObsSlots, m \in 0..MaxWatched : first_poll(w, m)
    \/ \E w \in ObsSlots : poll_stop(w)
    \/ \E w \in ObsSlots, p \in LifePaths : recv_modify(w, p)
    \/ \E w \in ObsSlots : recv_error(w)
    \/ \E w \in ObsSlots : iterate_lock(w)
    \/ \E w \in ObsSlots, size \in 0..MaxSize : iterate_update(w, size)
    \/ \E w \in ObsSlots : iterate_update_panic(w)
    \/ \E w \in ObsSlots : iterate_getsize(w)
    \/ \E w \in ObsSlots : iterate_snapshot(w)
    \/ \E w \in ObsSlots : iterate_check(w)
    \/ \E w \in ObsSlots, n \in 0..MaxGot : iterate_collect(w, n)
    \/ \E w \in ObsSlots, ok \in BOOLEAN : iterate_sync(w, ok)
    \/ \E w \in ObsSlots, c \in BOOLEAN : iterate_commit(w, c)
    \/ \E w \in ObsSlots : monitor_return(w)
    \/ \E w \in ObsSlots : worker_poisoned(w)

SpecObs == Init /\ [][NextObs]_vars

\* start_monitor called when no earlier inner_monitor thread is still running
start_monitor_alone(exists) ==
    /\ \A w \in ObsSlots : ~Alive(w)
    /\ start_monitor(exists)

NextTail ==
    \/ \E exists \in BOOLEAN : start_monitor_alone(exists)
    \/ stop_monitor
    \/ stop_monitor_wake
    \/ ui_poisoned
    \/ \E w \in ObsSlots, m \in 0..MaxWatched : first_poll(w, m)
    \/ \E w \in ObsSlots : poll_stop(w)
    \/ \E w \in ObsSlots, p \in Paths : recv_modify(w, p)
    \/ \E w \in ObsSlots : recv_error(w)
    \/ \E w \in ObsSlots : iterate_lock(w)
    \/ \E w \in ObsSlots, size \in 0..MaxSize : iterate_update(w, size)
    \/ \E w \in ObsSlots : iterate_update_panic(w)
    \/ \E w \in ObsSlots : iterate_getsize(w)
    \/ \E w \in ObsSlots : iterate_snapshot(w)
    \/ \E w \in ObsSlots : iterate_check(w)
    \/ \E w \in ObsSlots, n \in 0..MaxGot : iterate_collect(w, n)
    \/ \E w \in ObsSlots, ok \in BOOLEAN : iterate_sync(w, ok)
    \/ \E w \in ObsSlots, c \in BOOLEAN : iterate_commit(w, c)
    \/ \E w \in ObsSlots : monitor_return(w)

\* the observer with one inner_monitor loop at a time, over all the paths;
\* no thread is left to lock the mutex a panic of that loop has poisoned
SpecTail == Init /\ [][NextTail]_vars

NextStop ==
    \/ start_monitor_alone(TRUE)
    \/ stop_monitor
    \/ stop_monitor_wake
    \/ \E w \in ObsSlots, m \in 0..MaxWatched : first_poll(w, m)
    \/ \E w \in ObsSlots : poll_stop(w)
    \/ \E w \in ObsSlots, p \in LifePaths : recv_modify(w, p)
    \/ \E w \in ObsSlots : iterate_lock(w)
    \/ \E w \in ObsSlots, size \in 0..MaxSize : iterate_update(w, size)
    \/ \E w \in ObsSlots : iterate_getsize(w)
    \/ \E w \in ObsSlots : iterate_snapshot(w)
    \/ \E w \in ObsSlots : iterate_check(w)
    \/ \E w \in ObsSlots, n \in 0..MaxGot : iterate_collect(w, n)
    \/ \E w \in ObsSlots, ok \in BOOLEAN : iterate_sync(w, ok)
    \/ \E w \in ObsSlots, c \in BOOLEAN : iterate_commit(w, c)
    \/ \E w \in ObsSlots : monitor_return(w)

\* one inner_monitor loop at a time on one file, started and stopped at any
\* moment
SpecStop == Init /\ [][NextStop]_vars

\* every spawned thread is scheduled, and stop_monitor wakes from its sleep;
\* no file event is ever required to arrive
FairObs ==
    /\ SpecObs
    /\ \A w \in ObsSlots : WF_vars(ObsWorkerStep(w))
    /\ WF_vars(stop_monitor_wake)

\* the same scheduling for the observer with one loop at a time
FairTail ==
    /\ SpecTail
    /\ \A w \in ObsSlots : WF_vars(ObsWorkerStep(w))
    /\ WF_vars(stop_monitor_wake)

----------------------------------------------------------------------------
(* The tailing of one log file, byte by byte *)

\* the bytes a log file is made of: "S" stands for the text "STOR 226 ",
\* "n" for the line feed, "a" for any other byte
Bytes == {"S", "a", "n"}

\* the log file under the watched path
LogFile == "X"

Range(f) == {f[i] : i \in DOMAIN f}

\* AsyncBufReadExt::read_line at offset: the bytes up to and including the
\* next line feed, or up to the end of the file when there is none; <<>> is
\* Ok(0)
RECURSIVE read_line(_, _)
read_line(bytes, offset) ==
    IF offset >= Len(bytes) THEN <<>>
    ELSE IF bytes[offset + 1] = "n" THEN <<"n">>
    ELSE <<bytes[offset + 1]>> \o read_line(bytes, offset + 1)

\* str::split_once("STOR 226 ") on a line that holds the text: words.1
RECURSIVE split_once_1(_)
split_once_1(line) == IF Head(line) = "S" THEN Tail(line) ELSE split_once_1(Tail(line))

\* the white space among the bytes: the line feed and the space
White == {"n", " "}

\* str::trim_end
RECURSIVE trim_end(_)
trim_end(str) ==
    IF str # <<>> /\ str[Len(str)] \in White THEN trim_end(SubSeq(str, 1, Len(str) - 1))
    ELSE str

\* the items extract_path_stream yields when it is collected: one path_str
\* (which handle_pathstring turns into a PathBuf) for each line read from
\* offset to the end of the file that holds "STOR 226 "
RECURSIVE extract_path_stream(_, _)
extract_path_stream(bytes, offset) ==
    LET line == read_line(bytes, offset)
    IN IF line = <<>> THEN <<>>
       ELSE (IF "S" \in Range(line) THEN <<trim_end(split_once_1(line))>> ELSE <<>>)
                \o extract_path_stream(bytes, offset + Len(line))

\* the writer of the log appends one byte
file_write(b) ==
    /\ Len(content) < MaxBytes
    /\ content' = Append(content, b)
    /\ UNCHANGED <<scvars, obvars, trvars, xvars, handed, extracted>>

\* inner_monitor: the update_file_watchinfo call on the log file as it is
lines_update(w) == iterate_update(w, Len(content))

\* inner_monitor: set_files_reading, paths_stream.collect() on the log file as
\* it is, and the call registry::process_paths(paths)
lines_collect(w) ==
    /\ workers[w].pc = "collect"
    /\ mutex = "free"
    /\ LET paths == extract_path_stream(content, workers[w].last_read_pos)
       IN /\ workers' = [workers EXCEPT ![w].pc = "sync", ![w].n = Len(paths)]
          /\ handed' = handed \cup Range(paths)
    /\ UNCHANGED <<scvars, trvars, xvars, content, extracted, status, launch_time, elapsed_time,
                   files_watched, files_got, logs, handle, mutex, ui, max_watch_files,
                   seen_pos>>

NextLines ==
    \/ start_monitor_alone(TRUE)
    \/ \E b \in Bytes : file_write(b)
    \/ \E w \in ObsSlots, m \in 0..MaxWatched : first_poll(w, m)
    \/ \E w \in ObsSlots : poll_stop(w)
    \/ \E w \in ObsSlots : recv_modify(w, LogFile)
    \/ \E w \in ObsSlots : iterate_lock(w)
    \/ \E w \in ObsSlots : lines_update(w)
    \/ \E w \in ObsSlots : iterate_getsize(w)
    \/ \E w \in ObsSlots : iterate_snapshot(w)
    \/ \E w \in ObsSlots : iterate_check(w)
    \/ \E w \in ObsSlots : lines_collect(w)
    \/ \E w \in ObsSlots, ok \in BOOLEAN : iterate_sync(w, ok)
    \/ \E w \in ObsSlots, c \in BOOLEAN : iterate_commit(w, c)

\* one inner_monitor loop tailing one log file that only grows
SpecLines == Init /\ [][NextLines]_vars

----------------------------------------------------------------------------
(* handle_pathstring *)

\* the characters of the path text in a log line
RawChars == {"/", "+", "A"}

RawPaths == UNION {[1..n -> RawChars] : n \in 0..MaxPath}

\* the `from` and `to` texts an entry of prefix_map_of_extract_path may hold
Froms == {<<>>, <<"\\">>, <<"\\", "A">>}

Tos == {<<"P">>, <<"Q">>}

\* the entries of the configuration file, in the order they are written
\* there: at most one for each of the keys "a", "b" and "default"
EntryOf(k) == {<<>>} \cup {<<[key |-> k, from |-> f, to |-> t]>> : f \in Froms, t \in Tos}

PrefixMaps == {x \o y \o z : x \in EntryOf("a"), y \in EntryOf("b"), z \in EntryOf("default")}

\* the keys an entry may have, and the place of each in the file
MapKeys == <<"a", "b", "default">>

KeyIndex(k) == CHOOSE i \in 1..Len(MapKeys) : MapKeys[i] = k

\* the orders a HashMap can place the keys in: rank[i] is the place of
\* MapKeys[i] in the iteration
HashOrders == Permutations(1..Len(MapKeys))

\* HashMap::iter: prefix_map_of_extract_path is a std HashMap that
\* load_config builds anew on every call, each with its own RandomState, so
\* its entries come in the order of their hashes under that state: any order,
\* and not the same one on every call
iter(map, rank) ==
    LET at(i) == SelectSeq(map, LAMBDA e : rank[KeyIndex(e.key)] = i)
    IN at(1) \o at(2) \o at(3)

\* a replacement of the first occurrence only
replace_first(str, a, b) ==
    [i \in 1..Len(str) |-> IF str[i] = a /\ (\A j \in 1..(i - 1) : str[j] # a)
                           THEN b ELSE str[i]]

\* str::replace of one character by another
replace(str, a, b) == [i \in 1..Len(str) |-> IF str[i] = a THEN b ELSE str[i]]

\* str::starts_with
starts_with(str, pat) == Len(pat) <= Len(str) /\ SubSeq(str, 1, Len(pat)) = pat

\* str::trim_start_matches: every leading repetition of pat is removed
RECURSIVE trim_start_matches(_, _)
trim_start_matches(str, pat) ==
    IF pat # <<>> /\ starts_with(str, pat)
    THEN trim_start_matches(SubSeq(str, Len(pat) + 1, Len(str)), pat)
    ELSE str

\* the first statement of handle_pathstring: '/' becomes '\', '+' a space
windows_style(path) == replace(replace(path, "/", "\\"), "+", " ")

\* format!("{}{}", to, path.trim_start_matches(from))
replaced(pair, path) == pair.to \o trim_start_matches(path, pair.from)

\* LogObserver::handle_pathstring; entries is prefix_map.iter() as a sequence
handle_pathstring(raw, entries) ==
    LET path == windows_style(raw)
        hits == SelectSeq(entries, LAMBDA e : /\ e.key # "default"
                                             /\ starts_with(path, e.from)
                                             /\ e.from # <<>>)
        default == SelectSeq(entries, LAMBDA e : e.key = "default")
    IN IF hits # <<>> THEN replaced(Head(hits), path)
       ELSE IF default # <<>> THEN replaced(Head(default), path)
       ELSE path

\* the configuration file is written: map is prefix_map_of_extract_path
config_written(map) ==
    /\ ~prefix_cfg.loaded
    /\ prefix_cfg' = [loaded |-> TRUE, prefix_map |-> map]
    /\ UNCHANGED <<scvars, obvars, lnvars, xvars, tr_path, tr_result>>

\* a call of handle_pathstring(raw); load_config reads the file and rank is
\* the order in which the HashMap it builds is iterated
translate(raw, rank) ==
    /\ prefix_cfg.loaded
    /\ tr_path' = raw
    /\ tr_result' = handle_pathstring(raw, iter(prefix_cfg.prefix_map, rank))
    /\ UNCHANGED <<scvars, obvars, lnvars, xvars, prefix_cfg>>

NextTranslate ==
    \/ \E map \in PrefixMaps : config_written(map)
    \/ \E raw \in RawPaths, rank \in HashOrders : translate(raw, rank)

\* handle_pathstring called on every path with every configuration
SpecTranslate == Init /\ [][NextTranslate]_vars

\* the characters of a path text: the two that are replaced, a space, "%" for
\* a character of an escape such as %20, "." for punctuation, "U" for a
\* character outside ASCII
PlainChars == {"/", "+", " ", "%", ".", "U"}

PlainPaths == UNION {[1..n -> PlainChars] : n \in 0..MaxPath}

\* prefix tables none of whose entries can match: the empty one, and one whose
\* only `from` is written with the '/' that no path holds once it is replaced
PlainMaps == {<<>>, <<[key |-> "a", from |-> <<"/">>, to |-> <<"P">>]>>}

\* the iteration that follows the order of the file (with at most one entry
\* every order gives the same sequence)
FileOrder == [i \in 1..Len(MapKeys) |-> i]

NextPlain ==
    \/ \E map \in PlainMaps : config_written(map)
    \/ \E raw \in PlainPaths : translate(raw, FileOrder)

\* handle_pathstring called on every path text, no entry of the table applying
SpecPlain == Init /\ [][NextPlain]_vars

\* the bytes of a log file whose lines hold path texts: "S" stands for the
\* text "STOR 226 ", "n" for the line feed, "/" and "A" are characters of a path
ExtBytes == {"S", "/", "A", " ", "n"}

\* the prefix tables of the extraction: the empty one, and the one that maps
\* the prefix \A to P
ExtMaps == {<<>>, <<[key |-> "a", from |-> <<"\\", "A">>, to |-> <<"P">>]>>}

\* extract_path_stream(path, offset) collected, as inner_monitor and
\* test_extract_path do: every item is handle_pathstring(path_str)
collect_paths(offset) ==
    /\ prefix_cfg.loaded
    /\ offset <= Len(content)
    /\ LET strs == extract_path_stream(content, offset)
           entries == iter(prefix_cfg.prefix_map, FileOrder)
       IN extracted' = [i \in 1..Len(strs) |-> handle_pathstring(strs[i], entries)]
    /\ UNCHANGED <<scvars, obvars, trvars, xvars, content, handed>>

NextExtract ==
    \/ \E map \in ExtMaps : config_written(map)
    \/ \E b \in ExtBytes : file_write(b)
    \/ \E offset \in 0..MaxBytes : collect_paths(offset)

\* every log file of up to MaxBytes bytes, extracted from every offset
SpecExtract == Init /\ [][NextExtract]_vars

----------------------------------------------------------------------------
(* A WrapList by itself: pushes interleaved with renders at any width *)

\* VecDeque::push_front
push_front(q, x) == <<x>> \o q

\* a pop at the front
pop_front(q) == IF q = <<>> THEN q ELSE Tail(q)

\* VecDeque::pop_back
pop_back(q) == IF q = <<>> THEN q ELSE SubSeq(q, 1, Len(q) - 1)

\* self.wrap_len.unwrap_or(500)
max_len(wrap_len) == IF wrap_len = 0 THEN unwrap_or_500 ELSE wrap_len

\* WrapList::add_item
add_item(list, wrap_len, e) ==
    LET pushed == push_front(list, e)
    IN IF Len(pushed) > max_len(wrap_len) THEN pop_back(pushed) ELSE pushed

\* WrapList::update_list: one ListItem for each entry of raw_list
update_list(raw) == raw

\* WrapList::get_raw_list
get_raw_list(raw) == raw

\* WrapList::new(capacity): the capacity is handed to VecDeque::with_capacity
\* and kept nowhere else
WrapList_new(capacity) ==
    /\ wl_capacity = 0
    /\ wl_capacity' = capacity
    /\ wl_raw_list' = <<>>
    /\ wl_list' = <<>>
    /\ wl_wrap_len' = 0
    /\ UNCHANGED <<not_wl, wl_pushed>>

\* WrapList::add_raw_item(item): the test that pops raw_list reads the length
\* of list
wl_add_raw_item ==
    /\ wl_capacity # 0
    /\ wl_pushed < MaxPushes
    /\ LET item == wl_pushed + 1
           popped == IF Len(wl_list) = max_len(wl_wrap_len) THEN pop_back(wl_raw_list)
                     ELSE wl_raw_list
       IN /\ wl_raw_list' = push_front(popped, item)
          /\ wl_list' = add_item(wl_list, wl_wrap_len, item)
          /\ wl_pushed' = item
    /\ UNCHANGED <<not_wl, wl_capacity, wl_wrap_len>>

\* StatefulWidget::render for &mut WrapList on an area of this width
wl_render(width) ==
    /\ wl_capacity # 0
    /\ IF wl_wrap_len # width
       THEN /\ wl_wrap_len' = width
            /\ wl_list' = update_list(wl_raw_list)
       ELSE UNCHANGED <<wl_wrap_len, wl_list>>
    /\ UNCHANGED <<not_wl, wl_capacity, wl_raw_list, wl_pushed>>

NextWrap ==
    \/ \E capacity \in 1..MaxCapacity : WrapList_new(capacity)
    \/ wl_add_raw_item
    \/ \E width \in 1..MaxWidth : wl_render(width)

SpecWrap == Init /\ [][NextWrap]_vars

----------------------------------------------------------------------------
(* The registry: db::insert_file_infos on the table testdata.file_info *)

\* the files whose FileInfo is delivered
RegPaths == {"X", "Y"}

\* the values a modification time and a size take
Stamps == {1, 2}

\* FileInfo, by the fields the statement writes that the metadata decides
FileInfo == [path : RegPaths, modified_at : Stamps, size : Stamps]

\* the slices of FileInfo a call is given
InfoBatches == UNION {[1..n -> FileInfo] : n \in 0..MaxBatch}

\* the unique key of the table: the column file_path
UniqueKey(row) == row.file_path

\* the row "(?, ?, ?, ?, ?, ?, ?)" of the VALUES list for one FileInfo
values_row(info) ==
    [file_path |-> info.path, time_last_written |-> info.modified_at,
     file_size |-> info.size]

\* INSERT IGNORE: a row whose key is present is dropped
insert_ignore(table, row) ==
    IF \E r \in table : UniqueKey(r) = UniqueKey(row) THEN table ELSE table \cup {row}

\* INSERT ... ON DUPLICATE KEY UPDATE time_last_written = VALUES(...),
\* file_size = VALUES(...) for one row of the VALUES list: a row whose key
\* is present updates the two columns of the row that is there
insert_on_duplicate(table, row) ==
    LET dup == {r \in table : UniqueKey(r) = UniqueKey(row)}
    IN IF dup = {} THEN table \cup {row}
       ELSE (table \ dup) \cup {[r EXCEPT !.time_last_written = row.time_last_written,
                                            !.file_size = row.file_size] : r \in dup}

\* the rows of the VALUES list are applied in order
RECURSIVE exec_drop(_, _)
exec_drop(table, infos) ==
    IF infos = <<>> THEN table
    ELSE exec_drop(insert_on_duplicate(table, values_row(Head(infos))), Tail(infos))

\* db::insert_file_infos(conn, infos): no statement for an empty slice
insert_file_infos(infos) ==
    /\ file_info' = IF infos = <<>> THEN file_info ELSE exec_drop(file_info, infos)
    /\ rg_infos' = infos
    /\ UNCHANGED not_rg

NextUpsert == \E infos \in InfoBatches : insert_file_infos(infos)

\* every sequence of batches delivered to the table
SpecUpsert == Init /\ [][NextUpsert]_vars

----------------------------------------------------------------------------
(* The registry: process_paths, batch by batch *)

\* what a pass of the loop of process_paths meets: both calls succeed, or
\* pool.get_conn fails, or insert_file_infos fails
BatchResults == {"ok", "conn", "insert"}

\* an end one past the last record of a full batch
batch_end_inclusive(idx, len) == Min(idx + batch_size + 1, len)

\* (idx + batch_size).min(file_infos.len())
batch_end(idx, len) == Min(idx + batch_size, len)

\* file_infos[idx..end]
slice(file_infos, idx, end) == SubSeq(file_infos, idx + 1, end)

\* process_paths(paths) up to its loop: paths are the files 1..n in this
\* order; FileInfo::from_path fails for the file `unreadable` (0: for none),
\* which is skipped
process_paths(n, unreadable) ==
    /\ pp_pc # "loop"
    /\ pp_file_infos' = SelectSeq([i \in 1..n |-> i], LAMBDA f : f # unreadable)
    /\ pp_idx' = 0
    /\ pp_batches' = <<>>
    /\ pp_pc' = "loop"
    /\ UNCHANGED not_pp

\* one pass of the loop
process_batch(result) ==
    /\ pp_pc = "loop"
    /\ pp_idx < Len(pp_file_infos)
    /\ LET end == batch_end(pp_idx, Len(pp_file_infos))
           batch == slice(pp_file_infos, pp_idx, end)
       IN CASE result = "ok" ->
                 /\ pp_batches' = Append(pp_batches, batch)
                 /\ pp_idx' = end
                 /\ UNCHANGED pp_pc
            [] result = "conn" ->
                 /\ pp_pc' = "err"
                 /\ UNCHANGED <<pp_batches, pp_idx>>
            [] result = "insert" ->
                 /\ pp_batches' = Append(pp_batches, batch)
                 /\ pp_pc' = "err"
                 /\ UNCHANGED pp_idx
    /\ UNCHANGED <<not_pp, pp_file_infos>>

\* the loop ends: Ok(())
process_return ==
    /\ pp_pc = "loop"
    /\ pp_idx >= Len(pp_file_infos)
    /\ pp_pc' = "ok"
    /\ UNCHANGED <<not_pp, pp_file_infos, pp_idx, pp_batches>>

NextBatch ==
    \/ \E n \in 0..MaxRecords, unreadable \in 0..1 : process_paths(n, unreadable)
    \/ \E result \in BatchResults : process_batch(result)
    \/ process_return

\* process_paths called with every number of paths up to MaxRecords
SpecBatch == Init /\ [][NextBatch]_vars

----------------------------------------------------------------------------
(* The cycles of a periodic scan over a tree that changes *)

\* a cutoff that leaves the interval out
cutoff_now(now, interval) == now

\* let cutoff_time = now - interval
cutoff_time(now, interval) == now - interval

\* the filter of the periodic walk on entry e: a regular file whose metadata
\* can be read and whose modified time is at or after the cutoff
periodic_filter(e, mtime, cutoff) ==
    /\ e \in CyFiles
    /\ mtime[e] # -1
    /\ mtime[e] >= cutoff

\* the clock advances
cy_tick ==
    /\ cy_now < MaxClock
    /\ cy_now' = cy_now + 1
    /\ UNCHANGED <<not_cy, cy_mtime, cy_pc, cy_interval, cy_cutoff, cy_files, cy_slept,
                   cy_submitted, cy_start, cy_seen, cy_due>>

\* an entry is written, or created
fs_write(e) ==
    /\ cy_mtime' = [cy_mtime EXCEPT ![e] = cy_now]
    /\ UNCHANGED <<not_cy, cy_now, cy_pc, cy_interval, cy_cutoff, cy_files, cy_slept,
                   cy_submitted, cy_start, cy_seen, cy_due>>

\* an entry is removed
fs_remove(e) ==
    /\ cy_mtime[e] # -1
    /\ cy_mtime' = [cy_mtime EXCEPT ![e] = -1]
    /\ UNCHANGED <<not_cy, cy_now, cy_pc, cy_interval, cy_cutoff, cy_files, cy_slept,
                   cy_submitted, cy_start, cy_seen, cy_due>>

\* start_periodic_scan(interval) on an existing path: the thread is spawned
cycle_spawn(interval) ==
    /\ cy_pc = "none"
    /\ cy_pc' = "top"
    /\ cy_interval' = interval
    /\ UNCHANGED <<not_cy, cy_now, cy_mtime, cy_cutoff, cy_files, cy_slept, cy_submitted,
                   cy_start, cy_seen, cy_due>>

\* the head of the loop with the status Running(Periodic): now and
\* cutoff_time are taken, the walk begins
cycle_top ==
    /\ cy_pc = "top"
    /\ cy_pc' = "walk"
    /\ cy_cutoff' = cutoff_time(cy_now, cy_interval)
    /\ cy_start' = cy_now
    /\ cy_files' = {}
    /\ cy_seen' = [e \in CyEntries |-> -2]
    /\ UNCHANGED <<not_cy, cy_now, cy_mtime, cy_interval, cy_slept, cy_submitted, cy_due>>

\* WalkDir yields entry e, which the filter lets through or not; an entry
\* that is not there is not yielded, or its metadata read fails
cycle_visit(e) ==
    /\ cy_pc = "walk"
    /\ cy_seen[e] = -2
    /\ cy_seen' = [cy_seen EXCEPT ![e] = cy_mtime[e]]
    /\ cy_files' = IF periodic_filter(e, cy_mtime, cy_cutoff) THEN cy_files \cup {e}
                   ELSE cy_files
    /\ cy_due' = IF periodic_filter(e, cy_mtime, cy_cutoff) THEN cy_due \ {e} ELSE cy_due
    /\ UNCHANGED <<not_cy, cy_now, cy_mtime, cy_pc, cy_interval, cy_cutoff, cy_slept,
                   cy_submitted, cy_start>>

\* the walk is over: update_file_infos_to_db(files), then the sleep loop
cycle_submit ==
    /\ cy_pc = "walk"
    /\ \A e \in CyEntries : cy_seen[e] # -2
    /\ cy_submitted' = cy_files
    /\ cy_slept' = 0
    /\ cy_pc' = "sleep"
    /\ UNCHANGED <<not_cy, cy_now, cy_mtime, cy_interval, cy_cutoff, cy_files, cy_start,
                   cy_seen, cy_due>>

\* one pass of the sleep loop with the status still Running(Periodic): a
\* sleep of one step; or the loop is over and the next cycle begins
cycle_sleep ==
    /\ cy_pc = "sleep"
    /\ IF cy_slept < cy_interval
       THEN /\ cy_now < MaxClock
            /\ cy_now' = cy_now + 1
            /\ cy_slept' = cy_slept + 1
            /\ UNCHANGED cy_pc
       ELSE /\ cy_pc' = "top"
            /\ UNCHANGED <<cy_now, cy_slept>>
    /\ UNCHANGED <<not_cy, cy_mtime, cy_interval, cy_cutoff, cy_files, cy_submitted,
                   cy_start, cy_seen, cy_due>>

NextCycle ==
    \/ cy_tick
    \/ \E e \in CyEntries : fs_write(e)
    \/ \E e \in CyEntries : fs_remove(e)
    \/ \E interval \in 1..MaxInterval : cycle_spawn(interval)
    \/ cycle_top
    \/ \E e \in CyEntries : cycle_visit(e)
    \/ cycle_submit
    \/ cycle_sleep

\* the cycles of one periodic scan while the files under the root change
SpecCycle == Init /\ [][NextCycle]_vars

\* a regular file is written while a cycle or its sleep is under way: the
\* file is due for a scan
fs_modify(e) ==
    /\ cy_pc \in {"walk", "sleep"}
    /\ cy_mtime' = [cy_mtime EXCEPT ![e] = cy_now]
    /\ cy_due' = cy_due \cup {e}
    /\ UNCHANGED <<not_cy, cy_now, cy_pc, cy_interval, cy_cutoff, cy_files, cy_slept,
                   cy_submitted, cy_start, cy_seen>>

NextGap ==
    \/ cy_tick
    \/ \E e \in CyFiles : fs_modify(e)
    \/ \E interval \in 1..MaxInterval : cycle_spawn(interval)
    \/ cycle_top
    \/ \E e \in CyEntries : cycle_visit(e)
    \/ cycle_submit
    \/ cycle_sleep

\* the cycles of one periodic scan while files are written during the cycles
SpecGap == Init /\ [][NextGap]_vars

SpecScan == Init /\ [][NextScan]_vars

\* every spawned thread and task is scheduled
FairScan ==
    /\ SpecScan
    /\ \A r \in ThreadStates : WF_vars(ScanWorkerStep(r))
    /\ WF_vars(stop_task_step)

\* the thread of a once scan and its completion watcher are each scheduled
FairOnce ==
    /\ SpecScan
    /\ WF_vars(collect_walk(OnceThread("walk", "-")))
    /\ WF_vars(\E ok \in BOOLEAN : collect_db(OnceThread("db", "-"), ok))
    /\ \A result \in {"Ok", "Err"} : WF_vars(watcher_finish(OnceThread("finished", result)))

----------------------------------------------------------------------------
(* The watch cache by itself: update_file_watchinfo and set_file_watchinfo  *)
(* applied to every path and size, for every max_watch_files               *)

\* load_config(): m is max_watch_files in the configuration file
cache_load(m) ==
    /\ max_watch_files = -1
    /\ max_watch_files' = m
    /\ UNCHANGED <<scvars, lnvars, trvars, xvars, status, launch_time, elapsed_time, files_watched, files_got,
                   logs, handle, workers, mutex, ui, seen_pos>>

\* a call of update_file_watchinfo for path p whose length is size
cache_update(p, size) ==
    /\ max_watch_files # -1
    /\ LET fw == update_file_watchinfo(files_watched, p, size, max_watch_files)
       IN /\ files_watched' = fw
          /\ seen_pos' = Seen(fw)
    /\ UNCHANGED <<scvars, lnvars, trvars, xvars, status, launch_time, elapsed_time, files_got, logs, handle,
                   workers, mutex, ui, max_watch_files>>

\* the call of set_file_watchinfo that inner_monitor makes after an
\* extraction: on a present key with file_size > last_read_pos
cache_set(p) ==
    /\ p \in Keys(files_watched)
    /\ get(files_watched, p).file_size > get(files_watched, p).last_read_pos
    /\ LET fw == set_file_watchinfo(files_watched,
                     [get(files_watched, p) EXCEPT !.last_read_pos =
                                                      get(files_watched, p).file_size])
       IN /\ files_watched' = fw
          /\ seen_pos' = Seen(fw)
    /\ UNCHANGED <<scvars, lnvars, trvars, xvars, status, launch_time, elapsed_time, files_got, logs, handle,
                   workers, mutex, ui, max_watch_files>>

NextCache ==
    \/ \E m \in 0..MaxWatched : cache_load(m)
    \/ \E p \in Paths, size \in 0..MaxSize : cache_update(p, size)
    \/ \E p \in Paths : cache_set(p)

SpecCache == Init /\ [][NextCache]_vars

----------------------------------------------------------------------------
(* Properties of the scanner *)

\* scan worker threads that have not finished their work
ActiveScanThreads ==
    [r \in {x \in Threads : x.kind = "periodic" \/ x.pc # "finished"} |-> sc_threads[r]]

\* C4: start_scanner or start_periodic_scan called while the status is
\* Running(Once) or Running(Periodic) leaves the status unchanged, spawns no
\* worker thread, does not increment the periodic scan count and appends
\* exactly one Error event to the scanner log.
C4_StartWhileRunningRejected ==
    [][(/\ IsRunning(scanner_status)
        /\ \/ \E e \in BOOLEAN : start_scanner(e)
           \/ \E e \in BOOLEAN, i \in 0..MaxInterval : start_periodic_scan(e, i))
       => /\ scanner_status' = scanner_status
          /\ sc_threads' = sc_threads
          /\ periodic_scan_count' = periodic_scan_count
          /\ sc_logs' = add_raw_item(sc_logs, MaxLog, "Error")]_vars

\* a start_scanner call has just been rejected during a periodic scan
C4_Witness ==
    /\ sc_last = "start:running"
    /\ scanner_status = "Running(Periodic)"
    /\ Head(sc_logs) = "Error"
    /\ ActiveScanThreads # EmptyBag

\* C7: over any interleaving of start_scanner, start_periodic_scan and
\* stop_periodic_scan at most one scan worker thread is active at any time.
C7_OneScanWorker == BagCardinality(ActiveScanThreads) <= 1

\* C8: a stop accepted while the periodic loop is in its inter-cycle sleep is
\* observed at that loop's next sub-interval check point: the check sends the
\* loop to its exit, where it sets the status to Stopped.
C8_StopAtNextCheck ==
    [][\A r \in Threads :
          (r.pending /\ periodic_sleep(r)) => sc_threads' = Replace(r, PeriodicThread("exit", 0))]_vars

\* C9: whenever the scanner status is Stopping it eventually becomes Stopped.
C9_StoppingTransient == (scanner_status = "Stopping") ~> (scanner_status = "Stopped")

\* the threads, their history field left out
Unmarked(B) ==
    [x \in {[r EXCEPT !.pending = FALSE] : r \in BagToSet(B)} |->
        CopiesIn(x, B) + CopiesIn([x EXCEPT !.pending = TRUE], B)]

\* C10: stop_periodic_scan on a Stopped or Stopping scanner leaves the status
\* unchanged and appends exactly one Error event; on any other status it sets
\* the status to Stopping in the call itself, no worker thread having moved.
C10_StopPeriodicScan ==
    [][stop_periodic_scan
       => IF scanner_status \in {"Stopped", "Stopping"}
          THEN /\ scanner_status' = scanner_status
               /\ sc_logs' = add_raw_item(sc_logs, MaxLog, "Error")
          ELSE /\ scanner_status' = "Stopping"
               /\ Unmarked(sc_threads') = Unmarked(sc_threads)
               /\ sc_logs' = sc_logs]_vars

\* a stop has just been accepted while a periodic loop was asleep
C10_Witness ==
    /\ sc_last = "stop:accepted"
    /\ scanner_status = "Stopping"
    /\ \E r \in Threads : r.pending

\* C11: start_periodic_scan on a Stopping scanner is rejected as start_scanner
\* rejects it: the status stays Stopping, no worker thread is spawned and an
\* Error event is logged.
C11_StartPeriodicWhileStopping ==
    [][(/\ scanner_status = "Stopping"
        /\ \E e \in BOOLEAN, i \in 0..MaxInterval : start_periodic_scan(e, i))
       => /\ scanner_status' = "Stopping"
          /\ sc_threads' = sc_threads
          /\ sc_logs' = add_raw_item(sc_logs, MaxLog, "Error")]_vars

----------------------------------------------------------------------------
(* Properties of the observer *)

PathsOf(fw) == [i \in 1..Len(fw) |-> fw[i].path]

\* the threads that are at or past the extraction of their event
Extracting(ws) == {w \in ObsSlots : ws[w].pc \in {"collect", "sync", "commit"}}

\* C1: over any sequence of Modify events processed by the observer loop the
\* last_read_pos recorded for a path never decreases from one event to the
\* next, whatever max_watched is and whatever other paths are observed in
\* between, and extraction is attempted only when file_size > last_read_pos.
C1_OffsetMonotone ==
    [][/\ \A p \in Paths :
             p \in Keys(files_watched')
                 => get(files_watched', p).last_read_pos >= seen_pos[p]
       /\ \A w \in Extracting(workers') :
             workers'[w].file_size > workers'[w].last_read_pos]_vars

\* what C2 says of one update_file_watchinfo call for path p
EvictionBound(p) ==
    /\ Len(files_watched') <= max_watch_files
    /\ (p \notin Keys(files_watched) /\ Len(files_watched) >= max_watch_files
            /\ files_watched # <<>>)
        => /\ PathsOf(files_watched') = Tail(PathsOf(files_watched)) \o <<p>>
           /\ \A i \in 1..(Len(files_watched) - 1) : files_watched'[i] = files_watched[i + 1]

\* C2: for every max_watched and every sequence of update_file_watchinfo
\* calls, files_watched never holds more than max_watched entries after a
\* call, and a new key inserted into a full map removes the earliest-inserted
\* key still present.
C2_EvictionBound ==
    [][\A p \in Paths, size \in 0..MaxSize : cache_update(p, size) => EvictionBound(p)]_vars

\* C2 as amended: the same for every max_watched >= 1.
C2_EvictionBoundPositive ==
    [][\A p \in Paths, size \in 0..MaxSize :
          (max_watch_files >= 1 /\ cache_update(p, size)) => EvictionBound(p)]_vars

\* max_watched = 2 and X, whose offset had advanced, has been evicted by the
\* insertion of Z after Y
C2_Witness ==
    /\ max_watch_files = 2
    /\ PathsOf(files_watched) = <<"Y", "Z">>
    /\ seen_pos["X"] > 0

\* C3: start_monitor on a Running observer completes as a no-op: the call
\* returns, status stays Running, launch_time is unchanged, no second thread
\* is spawned and exactly one Error event is appended.
C3_StartWhileRunningNoop ==
    [][(status = "Running" /\ start_monitor(TRUE))
       => /\ ui' = "idle"
          /\ status' = "Running"
          /\ launch_time' = launch_time
          /\ workers' = workers
          /\ handle' = handle
          /\ logs' = add_raw_item(logs, MaxObsLog, "Error")]_vars

\* C5: once the status is Stopped, every running inner_monitor thread
\* eventually terminates, without any file event having to arrive.
C5_StopEndsWorker ==
    \A w \in ObsSlots : (status = "Stopped" /\ Alive(w)) ~> ~Alive(w)

\* C6: at most one inner_monitor thread is alive at any time.
C6_OneObserverThread == Cardinality({w \in ObsSlots : Alive(w)}) <= 1

\* C12: when the registry upsert fails for an extracted batch the thread
\* appends an Error event, stays alive with the status still Running and
\* goes on to count the batch in files_got and to take the next event.
C12_UpsertFailureSurvived ==
    [][\A w \in ObsSlots :
          (status = "Running" /\ iterate_sync(w, FALSE))
              => /\ workers'[w].pc \in {"commit", "recv"}
                 /\ status' = "Running"
                 /\ logs' = add_raw_item(logs, MaxObsLog, "Error")]_vars

\* C13: in every state where an inner_monitor thread has ended in a panic
\* the observer status is not Running.
C13_NoRunningAfterPanic ==
    \A w \in ObsSlots : workers[w].pc = "panicked" => status # "Running"

\* a thread inside a blocking call: the metadata read of update_file_watchinfo,
\* the file read of extract_path_stream, or registry::process_paths
InBlockingIO(w) == workers[w].pc \in {"metadata", "collect", "sync"}

\* the thread owns the guard of the shared-state mutex
HoldsLock(w) == workers[w].pc = "metadata" /\ mutex = "held"

\* C16: in every state in which a thread is inside a file metadata read, a
\* file read or a registry upsert, that thread does not hold the shared-state
\* mutex.
C16_NoLockAcrossIO == \A w \in ObsSlots : InBlockingIO(w) => ~HoldsLock(w)

\* the last_read_pos recorded for the log file
Committed ==
    IF LogFile \in Keys(files_watched) THEN get(files_watched, LogFile).last_read_pos
    ELSE 0

\* the lines of the log file that end with a line feed, by first and last byte
CompleteLines ==
    {l \in (1..Len(content)) \X (1..Len(content)) :
        /\ l[1] <= l[2]
        /\ content[l[2]] = "n"
        /\ l[1] = 1 \/ content[l[1] - 1] = "n"
        /\ \A k \in l[1]..(l[2] - 1) : content[k] # "n"}

\* C14: in every state, every complete line that holds "STOR 226 " and lies
\* below the last_read_pos recorded for its file has had its path included
\* in a batch passed to registry::process_paths.
C14_AtLeastOnce ==
    \A l \in CompleteLines :
        LET line == SubSeq(content, l[1], l[2])
        IN (l[2] <= Committed /\ "S" \in Range(line))
               => trim_end(split_once_1(line)) \in handed

\* the file without the line that is still being written
RECURSIVE complete_part(_)
complete_part(bytes) ==
    IF bytes = <<>> \/ bytes[Len(bytes)] = "n" THEN bytes
    ELSE complete_part(SubSeq(bytes, 1, Len(bytes) - 1))

\* C15: a scan of a file that ends with a line without its line feed extracts
\* no record from that line: the batch holds the records of the complete
\* lines only, the partial line being left to a later scan.
C15_PartialLineDeferred ==
    [][\A w \in ObsSlots :
          lines_collect(w)
              => handed' = handed \cup Range(extract_path_stream(complete_part(content),
                                                                  workers[w].last_read_pos))]_vars

----------------------------------------------------------------------------
(* Properties of handle_pathstring *)

\* the step is a call of handle_pathstring
IsTranslate == \E rank \in HashOrders : translate(tr_path', rank)

\* the non-default entries whose non-empty `from` starts the path, in the
\* order of the configuration file
Matching(map, path) ==
    SelectSeq(map, LAMBDA e : e.key # "default" /\ e.from # <<>> /\ starts_with(path, e.from))

\* the default entry of the file, if any
DefaultOf(map) == SelectSeq(map, LAMBDA e : e.key = "default")

\* the path with one leading occurrence of pat removed
RemoveOnce(path, pat) ==
    IF starts_with(path, pat) THEN SubSeq(path, Len(pat) + 1, Len(path)) ELSE path

\* C17: with the configuration fixed, a call of handle_pathstring with the
\* path of the call before it returns what that call returned, whatever the
\* prefix table is.
C17_TranslateDeterministic ==
    [][(IsTranslate /\ tr_path' = tr_path) => tr_result' = tr_result]_vars

\* C18: when several non-default entries match the path, the entry applied is
\* the one that comes first in the configuration file.
C18_FirstMatchWins ==
    [][IsTranslate
       => LET path == windows_style(tr_path')
              hits == Matching(prefix_cfg.prefix_map, path)
          IN Len(hits) >= 2 => tr_result' = replaced(Head(hits), path)]_vars

\* C19: when a non-default entry matches, the result is its `to` followed by
\* the path with exactly one leading occurrence of its `from` removed.
C19_OnePrefixRemoved ==
    [][IsTranslate
       => LET path == windows_style(tr_path')
              hits == Matching(prefix_cfg.prefix_map, path)
          IN hits # <<>>
                 => \E i \in 1..Len(hits) :
                        tr_result' = hits[i].to \o RemoveOnce(path, hits[i].from)]_vars

\* C20: when no non-default entry matches, the default entry is applied as a
\* prefix substitution, or the path is returned as it is when there is no
\* default entry; when a non-default entry matches, it is a matching entry
\* that is applied and not the default one.
C20_DefaultFallback ==
    [][IsTranslate
       => LET path == windows_style(tr_path')
              hits == Matching(prefix_cfg.prefix_map, path)
              default == DefaultOf(prefix_cfg.prefix_map)
          IN IF hits # <<>>
             THEN \E i \in 1..Len(hits) : tr_result' = replaced(hits[i], path)
             ELSE IF default # <<>>
             THEN tr_result' = Head(default).to \o RemoveOnce(path, Head(default).from)
             ELSE tr_result' = path]_vars

\* C21: a call of handle_pathstring under a table none of whose entries
\* applies returns the path text with every '/' replaced by a backslash,
\* every '+' by a space, and every other character (a space, '%', punctuation,
\* a character outside ASCII) as it was, at its place.
C21_Normalised ==
    [][(IsTranslate /\ prefix_cfg.prefix_map \in PlainMaps)
       => /\ Len(tr_result') = Len(tr_path')
          /\ \A i \in 1..Len(tr_path') :
                 tr_result'[i] = CASE tr_path'[i] = "/" -> "\\"
                                   [] tr_path'[i] = "+" -> " "
                                   [] OTHER -> tr_path'[i]]_vars

\* a path with two '/' and a '%' has been translated under the table whose
\* `from` is "/"
C21_Witness ==
    /\ prefix_cfg.prefix_map # <<>>
    /\ tr_path = <<"/", "%", "/">>
    /\ tr_result = <<"\\", "%", "\\">>

----------------------------------------------------------------------------
(* Properties of extract_path_stream *)

\* the text without its leading white space
RECURSIVE trim_start(_)
trim_start(str) == IF str # <<>> /\ Head(str) \in White THEN trim_start(Tail(str)) ELSE str

\* the text with leading and trailing white space removed
trim(str) == trim_start(trim_end(str))

\* one record for each line from offset on that holds the marker: the text
\* after the marker, trimmed on both sides, translated by handle_pathstring
RECURSIVE marked_records(_, _, _)
marked_records(bytes, offset, entries) ==
    LET line == read_line(bytes, offset)
    IN IF line = <<>> THEN <<>>
       ELSE (IF "S" \in Range(line)
             THEN <<handle_pathstring(trim(split_once_1(line)), entries)>>
             ELSE <<>>) \o marked_records(bytes, offset + Len(line), entries)

\* C22: the items of a collected extract_path_stream are, in the order of the
\* lines, one record for each line that holds "STOR 226 " and none for any
\* other line; the record is the text after the marker with its leading and
\* trailing white space removed, translated by handle_pathstring.
C22_ExtractIffMarker ==
    [][\A offset \in 0..MaxBytes :
          collect_paths(offset)
              => extracted' = marked_records(content, offset,
                                             iter(prefix_cfg.prefix_map, FileOrder))]_vars

----------------------------------------------------------------------------
(* Properties of WrapList *)

\* C23: after any pushes and renders the WrapList holds at most as many
\* events as the capacity given to WrapList::new, and a push made when it
\* holds that many drops exactly the oldest event and puts the new one first.
C23_CapacityBound ==
    [][/\ Len(wl_raw_list') <= wl_capacity'
       /\ (wl_add_raw_item /\ Len(wl_raw_list) = wl_capacity)
              => wl_raw_list' = push_front(pop_back(wl_raw_list), wl_pushed')]_vars

\* C24: the snapshot lists the retained events from the last pushed one
\* backwards without a gap: the event at place i is the i-th most recent
\* push, so a later push comes before an earlier one and no event is kept
\* while a newer one is gone.
C24_MostRecentFirst ==
    LET snapshot == get_raw_list(wl_raw_list)
    IN \A i \in 1..Len(snapshot) : snapshot[i] = wl_pushed - i + 1

\* an event has been evicted and two are retained
C24_Witness == Len(wl_raw_list) >= 2 /\ wl_pushed > Len(wl_raw_list)

----------------------------------------------------------------------------
(* Properties of the registry *)

\* the step is a call of insert_file_infos
IsInsert == insert_file_infos(rg_infos')

\* the rows of a table for one path
RowsOf(table, p) == {r \in table : r.file_path = p}

\* the last FileInfo of a batch for one path
LastFor(infos, p) ==
    infos[CHOOSE i \in 1..Len(infos) :
              /\ infos[i].path = p
              /\ \A j \in (i + 1)..Len(infos) : infos[j].path # p]

\* C25: after a batch is delivered, every path of the batch has exactly one
\* row, whose modified time and size are those the batch delivered last for
\* it, whether or not the path had a row before; the rows of all the other
\* paths are as they were.
C25_UpsertIdempotent ==
    [][IsInsert
       => \A p \in RegPaths :
              IF \E i \in 1..Len(rg_infos') : rg_infos'[i].path = p
              THEN RowsOf(file_info', p) = {values_row(LastFor(rg_infos', p))}
              ELSE RowsOf(file_info', p) = RowsOf(file_info, p)]_vars

\* a path that has a row was delivered twice in one batch, with other values
\* the second time, while the other path has a row too
C25_Witness ==
    /\ Len(rg_infos) = 2
    /\ rg_infos[1].path = "X" /\ rg_infos[2].path = "X"
    /\ rg_infos[1].size # rg_infos[2].size
    /\ RowsOf(file_info, "Y") # {}
    /\ RowsOf(file_info, "X") = {values_row(rg_infos[2])}

\* the records of several batches, in order
RECURSIVE Flatten(_)
Flatten(batches) == IF batches = <<>> THEN <<>> ELSE Head(batches) \o Flatten(Tail(batches))

\* C26: every batch handed to the registry holds between 1 and 100 records;
\* as long as no pass has failed, the batches laid end to end are the
\* records up to idx, in input order, each once; and when process_paths
\* returns Ok every record has been sent, none at all for an empty list.
C26_Batches ==
    /\ \A k \in 1..Len(pp_batches) :
           Len(pp_batches[k]) >= 1 /\ Len(pp_batches[k]) <= batch_size
    /\ pp_pc # "err" => Flatten(pp_batches) = SubSeq(pp_file_infos, 1, pp_idx)
    /\ pp_pc = "ok" => pp_idx = Len(pp_file_infos)

\* a call with more than two full batches of records has returned Ok
C26_Witness ==
    /\ pp_pc = "ok"
    /\ Len(pp_file_infos) > 2 * batch_size
    /\ Len(pp_batches) = 3

----------------------------------------------------------------------------
(* Properties of the periodic cycle *)

\* C27: the files a cycle hands to the registry are exactly the regular
\* files whose modification time, as the walk of that cycle read it, is at or
\* after the time the cycle began minus the interval; a file that is there
\* and was last modified before that time is not among them.
C27_CutoffFilter ==
    [][cycle_submit
       => /\ cy_submitted' = {e \in CyFiles : /\ cy_seen[e] # -1
                                               /\ cy_seen[e] >= cy_start - cy_interval}
          /\ \A e \in CyFiles :
                 (cy_mtime[e] # -1 /\ cy_mtime[e] < cy_start - cy_interval)
                     => e \notin cy_submitted']_vars

\* a cycle that began after the first interval has handed over the file f,
\* modified since, and not the file g, last modified before the cutoff
C27_Witness ==
    /\ cy_pc = "sleep"
    /\ cy_submitted = {"f"}
    /\ cy_mtime["g"] # -1
    /\ cy_mtime["g"] < cy_start - cy_interval

----------------------------------------------------------------------------
(* Properties of stop_monitor and of the start calls *)

\* C28: a stop_monitor call on a Running observer sets the status to
\* Stopped; when the call goes on after its sleep, it either finds the thread
\* of the handle terminated, resets launch_time and elapsed_time and appends
\* one StopMonitor event, or finds it alive, appends one Error event and
\* leaves the times; a call on a Stopped observer changes nothing.
C28_StopMonitor ==
    [][/\ (stop_monitor /\ status = "Running") => status' = "Stopped"
       /\ (stop_monitor /\ status = "Stopped") => UNCHANGED obvars
       /\ (ui = "stop_sleep" /\ ui' # "stop_sleep")
              => IF handle # 0 /\ IsFinished(handle)
                 THEN /\ launch_time' = "epoch"
                      /\ elapsed_time' = "zero"
                      /\ logs' = add_raw_item(logs, MaxObsLog, "StopMonitor")
                 ELSE /\ logs' = add_raw_item(logs, MaxObsLog, "Error")
                      /\ UNCHANGED <<launch_time, elapsed_time>>]_vars

\* C29: a start_scanner, start_periodic_scan or start_monitor call on a path
\* that does not exist leaves the status and the threads as they are,
\* appends one Error event and returns to its caller.
C29_StartMissingPath ==
    [][/\ (start_scanner(FALSE) \/ \E interval \in 1..MaxInterval :
                                       start_periodic_scan(FALSE, interval))
              => /\ UNCHANGED <<scanner_status, sc_threads>>
                 /\ sc_logs' = add_raw_item(sc_logs, MaxLog, "Error")
       /\ start_monitor(FALSE)
              => /\ UNCHANGED <<status, handle, workers>>
                 /\ logs' = add_raw_item(logs, MaxObsLog, "Error")
                 /\ ui' = "idle"]_vars

\* C30: when rx.recv_timeout returns an error other than a timeout, the
\* worker appends an Error event and the status is no longer Running once
\* the error is handled.
C30_RecvErrorStops ==
    [][\A w \in ObsSlots :
          recv_error(w) => /\ logs' = add_raw_item(logs, MaxObsLog, "Error")
                           /\ status' # "Running"]_vars

----------------------------------------------------------------------------
(* Properties of the scanner's status and of its scans *)

\* C31: the scanner status changes only from Stopped, Finished or Failed to
\* Running(Once) or Running(Periodic), from Running(Once) to Finished or
\* Failed, from Running(Periodic) to Stopping, and from Stopping to Stopped.
C31_StatusTransitions ==
    [][scanner_status' # scanner_status
          => \/ /\ scanner_status \in {"Stopped", "Finished", "Failed"}
                /\ IsRunning(scanner_status')
             \/ /\ scanner_status = "Running(Once)"
                /\ scanner_status' \in {"Finished", "Failed"}
             \/ /\ scanner_status = "Running(Periodic)"
                /\ scanner_status' = "Stopping"
             \/ /\ scanner_status = "Stopping"
                /\ scanner_status' = "Stopped"]_vars

\* a once scan is under way and has not failed
OnceScanning ==
    \E r \in Threads : r.kind = "once" /\ r.result # "Err"

\* a once scan has failed and is not joined yet
OnceFailed == BagIn(OnceThread("finished", "Err"), sc_threads)

C35_FailedOnError ==
    [][watcher_finish(OnceThread("finished", "Err")) => scanner_status' = "Failed"]_vars

\* C36: when the registry write of a scan fails, an Error event is appended
\* to the scanner log, the thread goes on (the once thread to its end, the
\* periodic thread to its Complete event and its sleep) and the status is
\* left as it is.
C36_SinkFailureLogged ==
    [][\A r \in Threads :
          collect_db(r, FALSE)
              => /\ sc_logs' = add_logs(sc_logs, MaxLog,
                                        IF r.kind = "once" THEN <<"Error">>
                                        ELSE <<"Error", "Complete">>)
                 /\ scanner_status' = scanner_status
                 /\ BagCardinality(sc_threads') = BagCardinality(sc_threads)]_vars

\* C37: when process_paths meets a file whose metadata cannot be read, it
\* leaves that file out, keeps every other file of the call in order, and an
\* event is appended to the log of the scanner or of the observer.
C37_UnreadableSkippedAndLogged ==
    [][\A n \in 1..MaxRecords :
          process_paths(n, 1)
              => /\ pp_file_infos' = [i \in 1..(n - 1) |-> i + 1]
                 /\ \/ sc_logs' = add_raw_item(sc_logs, MaxLog, "Error")
                    \/ logs' = add_raw_item(logs, MaxObsLog, "Error")]_vars

\* C38: a file written while a periodic scan is under way is let through by
\* the first walk that meets it after the write: no walk leaves out a file
\* that is due.
C38_NoGap ==
    [][\A e \in CyFiles :
          (cycle_visit(e) /\ e \in cy_due /\ cy_mtime[e] # -1) => e \in cy_files']_vars

----------------------------------------------------------------------------
(* Properties of the watch cache under the observer loop *)

\* C32: after every update_file_watchinfo and every set_file_watchinfo call
\* of the observer loop, every entry of files_watched has
\* file_size >= last_read_pos.
C32_SizeAtLeastOffset ==
    \A i \in 1..Len(files_watched) :
        files_watched[i].file_size >= files_watched[i].last_read_pos

\* the entries of the map other than that of p are the same, at the same places
OthersKept(p) ==
    /\ PathsOf(files_watched') = PathsOf(files_watched)
    /\ \A i \in 1..Len(files_watched) :
           files_watched[i].path # p => files_watched'[i] = files_watched[i]

\* C33: update_file_watchinfo on a present key keeps its last_read_pos,
\* stores the new file_size, returns the previous info, evicts nothing and
\* leaves the key where it is in the eviction order; on an absent key it
\* stores last_read_pos = 0 and returns None.  set_file_watchinfo on a
\* present key evicts nothing and returns the previous info.
C33_UpsertFrame ==
    [][/\ \A p \in Paths, size \in 0..MaxSize :
             cache_update(p, size)
                 => LET old == update_file_watchinfo_old(files_watched, p, size,
                                                         max_watch_files)
                    IN /\ get(files_watched', p).file_size = size
                       /\ IF p \in Keys(files_watched)
                          THEN /\ get(files_watched', p).last_read_pos =
                                      get(files_watched, p).last_read_pos
                               /\ OthersKept(p)
                               /\ old = <<get(files_watched, p)>>
                          ELSE /\ get(files_watched', p).last_read_pos = 0
                               /\ old = <<>>
       /\ \A p \in Paths :
             cache_set(p)
                 => /\ OthersKept(p)
                    /\ set_file_watchinfo_old(files_watched, get(files_watched', p))
                           = <<get(files_watched, p)>>]_vars

\* X, whose offset had advanced to 1, has been updated to 2 bytes and is
\* still ahead of Y in the eviction order
C33_Witness ==
    /\ max_watch_files = 2
    /\ PathsOf(files_watched) = <<"X", "Y">>
    /\ files_watched[1].last_read_pos = 1
    /\ files_watched[1].file_size = 2

\* the places of a thread between the receipt of a Modify event and the test
\* of the status
BeforeCheck == {"update", "metadata", "getsize", "snapshot", "check"}

\* C39: a step that a thread takes on a Modify event while the status is
\* Stopped never enters the extraction (the file read, the registry call,
\* the commit of the offset), leaves files_got and the last_read_pos recorded
\* for the path as they are, and at the test of the status the thread leaves
\* the event loop.
C39_StoppedSkipsExtraction ==
    [][\A w \in ObsSlots :
          (/\ status = "Stopped"
           /\ workers[w].pc \in BeforeCheck
           /\ workers'[w] # workers[w])
              => /\ workers'[w].pc \notin {"collect", "sync", "commit"}
                 /\ workers[w].pc = "check" => workers'[w].pc = "iter_done"
                 /\ files_got' = files_got
                 /\ LET p == workers[w].path
                    IN p \in Keys(files_watched')
                           => get(files_watched', p).last_read_pos =
                                  IF p \in Keys(files_watched)
                                  THEN get(files_watched, p).last_read_pos ELSE 0]_vars

\* a thread has left the event loop at the test of the status on an event
\* for a file that had grown past its recorded offset
C39_Witness ==
    /\ status = "Stopped"
    /\ \E w \in ObsSlots : workers[w].pc = "iter_done"
    /\ \E i \in 1..Len(files_watched) :
           /\ files_watched[i].last_read_pos = 1
           /\ files_watched[i].file_size = 2

\* the last_read_pos of the Option that set_file_watchinfo returns, 0 for None
last_offset(old) == IF old = <<>> THEN 0 ELSE old[1].last_read_pos

\* C40: at every commit of an offset the previous last_read_pos that
\* set_file_watchinfo returns for the path is at most the new offset.
C40_NoUnderflow ==
    [][\A w \in ObsSlots, c \in BOOLEAN :
          iterate_commit(w, c)
              => LET info == get(files_watched', workers[w].path)
                 IN last_offset(set_file_watchinfo_old(files_watched, info))
                        <= info.last_read_pos]_vars

====
